---- MODULE Spec2Model ----
(***************************************************************************)
(* Block-propagation and conflict-resolution engine of the node            *)
(* (raze/node/node.cpp): block processor, active transactions / elections, *)
(* vote processing and distributed work.                                   *)
(***************************************************************************)
EXTENDS Integers, Sequences, FiniteSets, Bags, TLC

(***************************************************************************)
(* Bounds of the model                                                     *)
(***************************************************************************)
MaxQueue == 1
MaxPublishQueue == 2
MaxSubmitted == 4
MaxTime == 61
MaxElections == 2
MaxLocalSeq == 3
Supply == 32

(***************************************************************************)
(* Blocks.  A block value is its hash (digest of the hashables, which      *)
(* excludes work and signature), its work value and whether its signature  *)
(* verifies.  previous/source are functions of the hash.                   *)
(***************************************************************************)
GenesisHash == 1
BlockHashes == {2, 3, 4, 5}
MissingSource == 9

Blk(h, w, s) == [hash |-> h, work |-> w, sig |-> s]

Blocks ==
    { Blk(2, 1, TRUE), Blk(2, 2, TRUE), Blk(2, 2, FALSE),
      Blk(3, 1, TRUE), Blk(3, 1, FALSE),
      Blk(4, 1, TRUE), Blk(5, 1, TRUE) }

previous(h) == CASE h = 2 -> 1 [] h = 3 -> 1 [] h = 4 -> 2 [] h = 5 -> 2 [] h > 100 -> h + 100 [] OTHER -> 0

source(h) == IF h = 5 THEN MissingSource ELSE 0

root(b) == previous(b.hash)

hash2_calc(b) == b.hash

amount(h) == CASE h = 2 -> 1 [] h = 3 -> 2 [] OTHER -> 0

pending_account(h) == CASE h = 2 -> 7 [] OTHER -> 0

work_value(b) == b.work

validate_message(b) == ~b.sig

NoBlock == [hash |-> 0]

(***************************************************************************)
(* State                                                                   *)
(***************************************************************************)
VARIABLES
    now,                \* steady clock, seconds
    logging,            \* config.logging: ledger_logging_value, ledger_duplicate_logging_value
    store_blocks,       \* store: hash -> stored block with successor, or NoBlock
    unchecked,          \* store: dependency hash -> set of waiting blocks
    gap_blocks,         \* gap_cache.blocks: [arrival, hash, votes], in arrival order
    arrival,            \* block_arrival.arrival: set of [arrival, hash]
    blocks,             \* block_processor.blocks: deque of items
    stopped,            \* block_processor.stopped
    idle,               \* block_processor.idle
    txn,                \* holder of the store's single write transaction
    runner,             \* per thread running process_receive_many: its frame
    log,                \* ledger-level log lines: set of [code, hash]
    forks,              \* blocks handed to bootstrap_initiator.process_fork
    observed,           \* observer events emitted, in order
    store_votes,        \* store: account -> highest-sequence vote seen, or NoVote
    elections,          \* election objects, by identity
    roots,              \* active_transactions.roots: [root, election, announcements]
    io,                 \* per executor thread delivering a vote: its frame
    background,         \* operations posted to the executor, not yet run
    confirmations,      \* confirmation_action calls made, in order
    republished,        \* votes fanned out by republish_vote, with the time
    bootstraps,         \* bootstrap_initiator.bootstrap () calls requested
    submitted,          \* history: blocks handed to block_processor::add by process_active
    work_peers,         \* config.work_peers: addresses of the configured work peers
    work_request,       \* position of node::generate_work: "none" or "started"
    outstanding,        \* distributed_work.outstanding: addresses not yet removed
    completed,          \* distributed_work.completed (atomic flag)
    connection,         \* per work peer: position of its connection's handler
    work_cancels,       \* work peers a work_cancel request was posted for
    work_pool,          \* node.work for this root: "idle", "generating" or "done"
    work_callbacks,     \* invocations of the caller's callback, in order
    peers,              \* peer_container.peers: endpoint -> peer_information, or NoPeer
    attempts,           \* peer_container.attempts: endpoint -> time of the attempt, or NoAttempt
    rep_crawler_active, \* rep_crawler.active: hashes of the blocks peers are queried about
    alarm,              \* alarm.operations: timer callbacks not yet run
    sent,               \* keepalive and confirm_req datagrams sent: set of [type, to]
    replies,            \* confirm_acks sent back to the senders of stale votes
    peers_l,            \* ongoing_keepalive: the list purge_list returned last
    disconnects,        \* calls of the disconnect observer
    added,              \* history: hash -> time of the latest block_arrival::add, or NotAdded
    alarm_thread,       \* alarm::run: position of the alarm thread
    posted,             \* operations the alarm posted to the executor, with the time, in order
    resubmitted,        \* history: the block published a second time and the state it was published in
    network,            \* network: on, the asynchronous receives outstanding and the error counters
    node_held,          \* the process holds its shared_ptr to the node
    locking             \* each thread's path through the locks, its position and the mutexes it holds


(***************************************************************************)
(* Helpers on sequences and sets                                           *)
(***************************************************************************)
BlockKey(b) == b.hash * 8 + b.work * 2 + (IF b.sig THEN 1 ELSE 0)

RECURSIVE SeqOfBlocks(_)
\* the blocks of S as a sequence in the store's key order
SeqOfBlocks(S) ==
    IF S = {} THEN <<>>
    ELSE LET m == CHOOSE x \in S : \A y \in S : BlockKey(x) <= BlockKey(y)
         IN  <<m>> \o SeqOfBlocks(S \ {m})

PushBackAll(list, deque) == deque \o list

RECURSIVE PushFrontAll(_, _)
\* push_front of each element of list, in order, onto deque
PushFrontAll(list, deque) ==
    IF list = <<>> THEN deque
    ELSE PushFrontAll(Tail(list), <<Head(list)>> \o deque)

SelectSeqNot(seq, h) == SelectSeq(seq, LAMBDA e : e.hash # h)

(***************************************************************************)
(* Ledger and store (external collaborators, modelled by their contract)   *)
(***************************************************************************)
AllHashes == {GenesisHash} \cup BlockHashes \cup {MissingSource}

Stored(b, succ) == [hash |-> b.hash, work |-> b.work, sig |-> b.sig, successor |-> succ]

block_exists(st, h) == h \in DOMAIN st /\ st[h] # NoBlock

block_get(st, h) == IF block_exists(st, h) THEN Blk(h, st[h].work, st[h].sig) ELSE NoBlock

block_successor(st, h) == IF block_exists(st, h) THEN st[h].successor ELSE 0

\* ledger.successor (root): the stored block that follows root, or NoBlock
ledger_successor(st, r) == block_get(st, block_successor(st, r))

block_put(st, b, succ) == [st EXCEPT ![b.hash] = Stored(b, succ)]

\* ledger.process that applies again a block it holds as the head of its chain
ledger_process_head_again(st, b) ==
    LET h == b.hash IN
    IF block_exists(st, h) /\ st[h].successor # 0 THEN [code |-> "old", store |-> st]
    ELSE IF ~block_exists(st, previous(h)) THEN [code |-> "gap_previous", store |-> st]
    ELSE IF source(h) # 0 /\ ~block_exists(st, source(h)) THEN [code |-> "gap_source", store |-> st]
    ELSE IF block_successor(st, previous(h)) \notin {0, h} THEN [code |-> "fork", store |-> st]
    ELSE IF validate_message(b) THEN [code |-> "bad_signature", store |-> st]
    ELSE [code |-> "progress",
          store |-> [st EXCEPT ![h] = Stored(b, 0), ![previous(h)].successor = h]]

\* ledger.process: result code and the store after applying the block
ledger_process(st, b) ==
    LET h == b.hash IN
    IF block_exists(st, h) THEN [code |-> "old", store |-> st]
    ELSE IF ~block_exists(st, previous(h)) THEN [code |-> "gap_previous", store |-> st]
    ELSE IF source(h) # 0 /\ ~block_exists(st, source(h)) THEN [code |-> "gap_source", store |-> st]
    ELSE IF block_successor(st, previous(h)) # 0 THEN [code |-> "fork", store |-> st]
    ELSE IF validate_message(b) THEN [code |-> "bad_signature", store |-> st]
    ELSE [code |-> "progress",
          store |-> [st EXCEPT ![h] = Stored(b, 0), ![previous(h)].successor = h]]

RECURSIVE ChainFrom(_, _)
\* h and every block that follows it
ChainFrom(st, h) ==
    IF ~block_exists(st, h) THEN {}
    ELSE {h} \cup ChainFrom(st, st[h].successor)

\* ledger.rollback: remove h and its dependents, h's predecessor becomes a frontier
ledger_rollback(st, h) ==
    LET gone == ChainFrom(st, h) IN
    [x \in DOMAIN st |->
        IF x \in gone THEN NoBlock
        ELSE IF st[x] # NoBlock /\ st[x].successor = h THEN [st[x] EXCEPT !.successor = 0]
        ELSE st[x]]

unchecked_get(u, h) == SeqOfBlocks(u[h])

unchecked_put(u, h, b) == [u EXCEPT ![h] = @ \cup {b}]

unchecked_del(u, h, b) == [u EXCEPT ![h] = @ \ {b}]

\* the blocks of list left under key h
unchecked_keep_all(u, h, list) == u

RECURSIVE unchecked_del_all(_, _, _)
\* unchecked_del of every block of list under key h
unchecked_del_all(u, h, list) ==
    IF list = <<>> THEN u
    ELSE unchecked_del_all(unchecked_del(u, h, Head(list)), h, Tail(list))

(***************************************************************************)
(* block_arrival                                                           *)
(***************************************************************************)
arrival_window == 60

\* block_arrival::add
block_arrival_add(arr, t, h) ==
    IF \E e \in arr : e.hash = h THEN arr ELSE arr \cup {[arrival |-> t, hash |-> h]}

\* block_arrival::recent: the entries kept after purging, and the answer
block_arrival_purged(arr, t) == {e \in arr : ~(e.arrival + arrival_window < t)}

block_arrival_recent(arr, t, h) == \E e \in block_arrival_purged(arr, t) : e.hash = h

(***************************************************************************)
(* Votes and representatives                                               *)
(***************************************************************************)
Reps == {"rA", "rB"}
LocalReps == {"rL"}
NotAnAccount == "not_an_account"
Accounts == Reps \cup LocalReps \cup {NotAnAccount}

\* ledger.weight
weight(a) == CASE a = "rA" -> 2 [] a = "rB" -> 15 [] a = "rL" -> 1 [] OTHER -> 0

NoVote == [account |-> NotAnAccount, sequence |-> 0]

Vote(a, n, b, s) == [account |-> a, sequence |-> n, block |-> b, sig |-> s]

\* store.vote_validate: the code and the store's vote table afterwards
vote_validate(sv, v) ==
    IF ~v.sig THEN [code |-> "invalid", votes |-> sv, vote |-> NoVote]
    ELSE IF sv[v.account].sequence >= v.sequence
         THEN [code |-> "replay", votes |-> sv, vote |-> sv[v.account]]
         ELSE [code |-> "vote", votes |-> [sv EXCEPT ![v.account] = v], vote |-> v]

\* store.vote_generate: a signed vote with the next sequence number
vote_generate(sv, a, b) ==
    LET v == Vote(a, sv[a].sequence + 1, b, TRUE)
    IN  [vote |-> v, votes |-> [sv EXCEPT ![a] = v]]

(***************************************************************************)
(* Election                                                                *)
(***************************************************************************)
\* raze::votes::votes: the initial block recorded under not_an_account
votes_init(b) == [a \in Accounts |-> IF a = NotAnAccount THEN Vote(NotAnAccount, 0, b, TRUE) ELSE NoVote]

\* raze::votes::vote
votes_vote(rv, v) == [rv EXCEPT ![v.account] = v]

Voted(rv) == {a \in Accounts : rv[a] # NoVote}

RECURSIVE SumWeights(_)
SumWeights(S) ==
    IF S = {} THEN 0
    ELSE LET a == CHOOSE x \in S : TRUE IN weight(a) + SumWeights(S \ {a})

TallyBlocks(rv) == {rv[a].block : a \in Voted(rv)}

TallyWeight(rv, b) == SumWeights({a \in Voted(rv) : rv[a].block = b})

\* ledger.tally: the top entry of the tally, greatest weight first, lower hash first on a tie
tally_winner(rv) ==
    LET top == CHOOSE b \in TallyBlocks(rv) :
                 \A c \in TallyBlocks(rv) :
                    \/ TallyWeight(rv, b) > TallyWeight(rv, c)
                    \/ TallyWeight(rv, b) = TallyWeight(rv, c) /\ BlockKey(b) <= BlockKey(c)
    IN  [first |-> TallyWeight(rv, top), second |-> top]

quorum_threshold == Supply \div 2

minimum_threshold == Supply \div 16

\* a flag that is tested but never set
test_and_set_unset(flag) == [old |-> flag, new |-> flag]

\* std::atomic_flag::test_and_set: the previous value and the value left behind
test_and_set(flag) == [old |-> flag, new |-> TRUE]

Task(t, b, e, f) == [type |-> t, block |-> b, election |-> e, flag |-> f]

\* confirm_once replacing the winner at a weight equal to the minimum threshold
confirm_once_at_minimum(el, id) ==
    LET tas == test_and_set(el.confirmed) IN
    IF tas.old THEN [el |-> [el EXCEPT !.confirmed = tas.new], posted |-> <<>>]
    ELSE
      LET winner == tally_winner(el.rep_votes)
          block_l == winner.second
          exceeded_min_threshold == winner.first >= minimum_threshold
          replace == block_l # el.last_winner /\ exceeded_min_threshold
          winner_l == IF replace THEN block_l ELSE el.last_winner
      IN  [el |-> [el EXCEPT !.confirmed = tas.new, !.last_winner = winner_l],
           posted |->
             (IF replace THEN <<Task("process_receive_many", block_l, id, TRUE)>> ELSE <<>>)
             \o <<Task("confirmed", winner_l, id, exceeded_min_threshold)>>]

\* election::confirm_once: the election afterwards and the operations posted
confirm_once(el, id) ==
    LET tas == test_and_set(el.confirmed) IN
    IF tas.old THEN [el |-> [el EXCEPT !.confirmed = tas.new], posted |-> <<>>]
    ELSE
      LET winner == tally_winner(el.rep_votes)
          block_l == winner.second
          exceeded_min_threshold == winner.first > minimum_threshold
          replace == block_l # el.last_winner /\ exceeded_min_threshold
          winner_l == IF replace THEN block_l ELSE el.last_winner
      IN  [el |-> [el EXCEPT !.confirmed = tas.new, !.last_winner = winner_l],
           posted |->
             (IF replace THEN <<Task("process_receive_many", block_l, id, TRUE)>> ELSE <<>>)
             \o <<Task("confirmed", winner_l, id, exceeded_min_threshold)>>]

\* have_quorum satisfied by a weight equal to the quorum threshold
have_quorum_at_threshold(el) == tally_winner(el.rep_votes).first >= quorum_threshold

\* election::have_quorum
have_quorum(el) == tally_winner(el.rep_votes).first > quorum_threshold

\* confirm_if_quorum recording the confirmation without replacing the winner
confirm_if_quorum_retaining(el, id) ==
    IF have_quorum(el) /\ ~el.confirmed
    THEN [el |-> [el EXCEPT !.confirmed = TRUE],
          posted |-> <<Task("confirmed", el.last_winner, id, TRUE)>>]
    ELSE [el |-> el, posted |-> <<>>]

\* election::confirm_if_quorum
confirm_if_quorum(el, id) ==
    IF have_quorum(el) THEN confirm_once(el, id) ELSE [el |-> el, posted |-> <<>>]

(***************************************************************************)
(* gap_cache                                                               *)
(***************************************************************************)
gap_cache_max == 2

GapInformation(t, h, rv) == [arrival |-> t, hash |-> h, votes |-> rv]

GapIndex(gb, h) == IF \E i \in 1..Len(gb) : gb[i].hash = h
                   THEN CHOOSE i \in 1..Len(gb) : gb[i].hash = h
                   ELSE 0

\* gap_cache::add evicting the youngest of the entries held before
gap_cache_add_evict_youngest(gb, t, b) ==
    LET existing == GapIndex(gb, b.hash) IN
    IF existing # 0
    THEN SelectSeqNot(gb, b.hash) \o <<[gb[existing] EXCEPT !.arrival = t]>>
    ELSE LET new == GapInformation(t, b.hash, votes_init(b))
         IN  IF Len(gb) + 1 > gap_cache_max
             THEN SubSeq(gb, 1, Len(gb) - 1) \o <<new>>
             ELSE gb \o <<new>>

\* gap_cache::add; blocks is kept in arrival order
gap_cache_add(gb, t, b) ==
    LET existing == GapIndex(gb, b.hash) IN
    IF existing # 0
    THEN SelectSeqNot(gb, b.hash) \o <<[gb[existing] EXCEPT !.arrival = t]>>
    ELSE LET ins == gb \o <<GapInformation(t, b.hash, votes_init(b))>>
         IN  IF Len(ins) > gap_cache_max THEN Tail(ins) ELSE ins

gap_cache_erase(gb, h) == SelectSeqNot(gb, h)

bootstrap_fraction_numerator == 1

\* gap_cache::bootstrap_threshold
bootstrap_threshold == (Supply \div 256) * bootstrap_fraction_numerator

\* gap_cache::vote: the cache afterwards and whether the bootstrap check is scheduled
gap_cache_vote(gb, v) ==
    LET existing == GapIndex(gb, v.block.hash) IN
    IF existing # 0
    THEN LET voted == votes_vote(gb[existing].votes, v)
         IN  [gap |-> [gb EXCEPT ![existing].votes = voted],
              check |-> tally_winner(voted).first > bootstrap_threshold]
    ELSE [gap |-> gb, check |-> FALSE]

(***************************************************************************)
(* Peers, rep crawler and the alarm                                        *)
(***************************************************************************)
Endpoints == {"p1", "p2"}

\* the unspecified address, which pads a keepalive's list of peers
Unspecified == "::"

\* version_using of the messages an endpoint sends
version_using(e) == IF e = "p1" THEN 5 ELSE 6

NoPeer == [endpoint |-> "none"]

\* peer_information (endpoint, network_version)
PeerInformation(e, t, v) ==
    [endpoint |-> e, last_contact |-> t, last_attempt |-> t, rep_weight |-> 0,
     network_version |-> v]

NoPeers == [e \in Endpoints |-> NoPeer]

KnownPeers == [e \in Endpoints |-> PeerInformation(e, 0, version_using(e))]

\* peer_container::not_a_peer; reserved addresses and the node's own endpoint
\* never get past receive_action
not_a_peer(e) == e = Unspecified

\* peer_container::known_peer
known_peer(ps, e) == e \in Endpoints /\ ps[e] # NoPeer

\* peer_container::insert: the table afterwards, the value returned and whether
\* the endpoint observer is called
peers_insert(ps, e, v, t) ==
    IF not_a_peer(e) THEN [peers |-> ps, result |-> TRUE, unknown |-> FALSE]
    ELSE IF ps[e] # NoPeer
    THEN [peers |-> [ps EXCEPT ![e].last_contact = t], result |-> TRUE, unknown |-> FALSE]
    ELSE [peers |-> [ps EXCEPT ![e] = PeerInformation(e, t, v)], result |-> FALSE, unknown |-> TRUE]

\* peer_container::contacted
contacted(ps, e, v, t) == peers_insert(ps, e, v, t)

\* peer_container::hash2_aware
hash2_aware(ps, e) == ps[e] # NoPeer /\ ps[e].network_version >= 6

\* rep_response storing the weight whatever the peer had
rep_response_assign(ps, e, w) ==
    IF ps[e] # NoPeer THEN [ps EXCEPT ![e].rep_weight = w] ELSE ps

\* peer_container::rep_response
rep_response(ps, e, w) ==
    IF ps[e] # NoPeer /\ ps[e].rep_weight < w THEN [ps EXCEPT ![e].rep_weight = w] ELSE ps

Operation(wakeup, kind, h) == [wakeup |-> wakeup, kind |-> kind, hash |-> h]

Datagram(type, to) == [type |-> type, to |-> to]

rep_query_timeout == 5

\* observers.endpoint for a new peer e: send_keepalive and rep_query (e) about
\* the block block_random returned
endpoint_observer(crawl, ops, out, e, random, t) ==
    [active |-> crawl \cup {random},
     alarm |-> ops \cup {Operation(t + rep_query_timeout, "rep_crawler_remove", random)},
     sent |-> out \cup {Datagram("keepalive", e), Datagram("confirm_req", e)}]

node_vars == <<now, logging, store_blocks, unchecked, gap_blocks, arrival,
               blocks, stopped, idle, txn, runner, log, forks, observed,
               store_votes, elections, roots, io, background, confirmations,
               republished, bootstraps, submitted,
               peers, attempts, rep_crawler_active, alarm, sent, replies, peers_l, disconnects,
               added, alarm_thread, posted, resubmitted, network, node_held, locking>>

\* the alarm thread and what it posted, and the history of the second publish
service_vars == <<alarm_thread, posted, resubmitted, network, node_held, locking>>

peer_vars == <<peers, attempts, rep_crawler_active, alarm, sent, replies, peers_l, disconnects>>

work_vars == <<work_peers, work_request, outstanding, completed, connection,
               work_cancels, work_pool, work_callbacks>>

vars == <<now, logging, store_blocks, unchecked, gap_blocks, arrival,
          blocks, stopped, idle, txn, runner, log, forks, observed,
          store_votes, elections, roots, io, background, confirmations, republished, bootstraps,
          submitted,
          work_peers, work_request, outstanding, completed, connection,
          work_cancels, work_pool, work_callbacks,
          peers, attempts, rep_crawler_active, alarm, sent, replies, peers_l, disconnects,
          added, alarm_thread, posted, resubmitted, network, node_held, locking>>

(***************************************************************************)
(* Initial state: the node as constructed, ledger holding the genesis      *)
(***************************************************************************)
Runners == {"bp", "bg"}
IoThreads == {"io1"}

\* threads that take the write transaction, active_transactions.mutex or gap_cache.mutex:
\* the block processor's thread and the threads that run the io_service
LockThreads == Runners \cup IoThreads

\* a thread that has not entered a path that takes a lock
Idle == [path |-> <<>>, pc |-> 0, held |-> {}]

Frame(pc, queue, progress) == [pc |-> pc, queue |-> queue, progress |-> progress]

IoFrame(pc, v, e) == [pc |-> pc, vote |-> v, election |-> e]

LoggingConfigs ==
    { [ledger_logging_value |-> FALSE, ledger_duplicate_logging_value |-> FALSE],
      [ledger_logging_value |-> TRUE, ledger_duplicate_logging_value |-> FALSE],
      [ledger_logging_value |-> TRUE, ledger_duplicate_logging_value |-> TRUE] }

InitWith(configs) ==
    /\ now = 0
    /\ logging \in configs
    /\ store_blocks = [h \in AllHashes |->
                         IF h = GenesisHash THEN Stored(Blk(GenesisHash, 1, TRUE), 0) ELSE NoBlock]
    /\ unchecked = [h \in AllHashes |-> {}]
    /\ gap_blocks = <<>>
    /\ arrival = {}
    /\ blocks = <<>>
    /\ stopped = FALSE
    /\ idle = TRUE
    /\ txn = "none"
    /\ runner = [r \in Runners |-> Frame(IF r = "bp" THEN "top" ELSE "idle", <<>>, <<>>)]
    /\ log = {}
    /\ forks = {}
    /\ observed = <<>>
    /\ store_votes = [a \in Accounts |-> NoVote]
    /\ elections = <<>>
    /\ roots = <<>>
    /\ io = [t \in IoThreads |-> IoFrame("idle", NoVote, 0)]
    /\ background = EmptyBag
    /\ confirmations = <<>>
    /\ republished = EmptyBag
    /\ bootstraps = 0
    /\ submitted = {}

NoAttempt == 0 - 1

NotAdded == 0 - 1

NoResubmit == [block |-> NoBlock]

NoDeadline == 0 - 1

\* alarm::run: where the thread is, the deadline of its wait_until and whether
\* the condition was notified since the wait began
AlarmThread(pc, until, notified) == [pc |-> pc, until |-> until, notified |-> notified]

\* the peer container, rep crawler and alarm as constructed, with the peers of
\* one of tables heard from already; the first ongoing_keepalive is due
InitPeers(tables) ==
    /\ peers \in tables
    /\ attempts = [e \in Endpoints \cup {Unspecified} |-> NoAttempt]
    /\ rep_crawler_active = {}
    /\ alarm = {Operation(0, "ongoing_keepalive", 0)}
    /\ sent = {}
    /\ replies = EmptyBag
    /\ peers_l = <<>>
    /\ disconnects = 0
    /\ added = [h \in AllHashes |-> NotAdded]
    /\ alarm_thread = AlarmThread("top", NoDeadline, FALSE)
    /\ posted = <<>>
    /\ resubmitted = NoResubmit
    /\ network = [started |-> FALSE, on |-> TRUE, receiving |-> 0, bad_sender_count |-> 0,
                  insufficient_work_count |-> 0, error_count |-> 0]
    /\ node_held = TRUE
    /\ locking = [t \in LockThreads |-> Idle]

(***************************************************************************)
(* Clock                                                                   *)
(***************************************************************************)
TimeSteps == {61}

Tick ==
    /\ \E d \in TimeSteps : now + d <= MaxTime /\ now' = now + d
    /\ UNCHANGED <<work_vars, service_vars, added, peer_vars, submitted, logging, store_blocks, unchecked, gap_blocks, arrival,
          blocks, stopped, idle, txn, runner, log, forks, observed,
          store_votes, elections, roots, io, background, confirmations, republished, bootstraps>>

\* the steady clock moves on by d seconds, up to limit
Elapse(d, limit) ==
    /\ now + d <= limit
    /\ now' = now + d
    /\ UNCHANGED <<work_vars, service_vars, added, peer_vars, submitted, logging, store_blocks, unchecked, gap_blocks, arrival,
          blocks, stopped, idle, txn, runner, log, forks, observed,
          store_votes, elections, roots, io, background, confirmations, republished, bootstraps>>

(***************************************************************************)
(* Keepalives and the purge of silent peers                                *)
(***************************************************************************)
\* node::period and node::cutoff, in seconds
period == 60

cutoff == 5 * period

MaxPeriods == 6

MaxDisconnects == 2

\* config.preconfigured_peers, as the endpoints their names resolve to
preconfigured_peers == {"p1"}

\* the 8 endpoints of a keepalive: the address of p2 and the padding
KeepalivePayloads == {<<"p2", Unspecified>>}

\* peer_container::reachout: the value returned and the attempts afterwards
reachout(ps, at, e, t) ==
    [result |-> not_a_peer(e) \/ known_peer(ps, e) \/ at[e] # NoAttempt,
     attempts |-> IF at[e] = NoAttempt THEN [at EXCEPT ![e] = t] ELSE at]

RECURSIVE merge_peers(_, _, _, _, _)
\* network::merge_peers: a keepalive to every endpoint of list reachout does
\* not refuse; the attempts and the datagrams sent afterwards
merge_peers(list, ps, at, out, t) ==
    IF list = <<>> THEN [attempts |-> at, sent |-> out]
    ELSE LET r == reachout(ps, at, Head(list), t)
         IN  merge_peers(Tail(list), ps, r.attempts,
                         IF r.result THEN out ELSE out \cup {Datagram("keepalive", Head(list))}, t)

\* the peers of ps heard from at cutoff or later
Retained(ps, c) == {e \in Endpoints : ps[e] # NoPeer /\ ps[e].last_contact >= c}

\* the peers of ps last heard from before cutoff
Silent(ps, c) == {e \in Endpoints : ps[e] # NoPeer /\ ps[e].last_contact < c}

\* the ways index 1 of the container can list the peers S: ascending
\* last_contact, equal times in any order
ByLastContact(ps, S) ==
    {[i \in 1..Cardinality(S) |-> ps[o[i]]] :
        o \in {s \in [1..Cardinality(S) -> S] :
                 \A i, j \in 1..Cardinality(S) :
                    i < j => s[i] # s[j] /\ ps[s[i]].last_contact <= ps[s[j]].last_contact}}

\* purge_list keeping the peers kept and returning the peers listed: the table
\* (last_attempt of every peer left set to t), the attempts not older than c,
\* the lists that can be returned and whether the disconnect observer is called
purge(ps, at, c, t, kept, listed) ==
    [peers |-> [e \in Endpoints |-> IF e \in kept THEN [ps[e] EXCEPT !.last_attempt = t] ELSE NoPeer],
     attempts |-> [e \in DOMAIN at |-> IF at[e] # NoAttempt /\ at[e] < c THEN NoAttempt ELSE at[e]],
     results |-> ByLastContact(ps, listed),
     disconnect |-> listed = {}]

\* purge_list that also evicts the peers last heard from exactly at cutoff
purge_list_inclusive(ps, at, c, t) ==
    purge(ps, at, c, t, Retained(ps, c + 1), Retained(ps, c + 1))

\* purge_list that returns the peers it evicted
purge_list_evicted(ps, at, c, t) ==
    purge(ps, at, c, t, Retained(ps, c), Silent(ps, c))

\* peer_container::purge_list
purge_list(ps, at, c, t) ==
    purge(ps, at, c, t, Retained(ps, c), Retained(ps, c))

RECURSIVE keepalive_loop(_, _, _)
\* the loop of ongoing_keepalive over peers_l: keepalives go out until the
\* first peer whose last_attempt is not older than period
keepalive_loop(list, out, t) ==
    IF list = <<>> \/ ~(t - Head(list).last_attempt > period) THEN out
    ELSE keepalive_loop(Tail(list), out \cup {Datagram("keepalive", Head(list).endpoint)}, t)

\* keepalive received from a peer: peers.contacted (a new peer is sent a
\* keepalive and a rep query about the block random) and merge_peers
keepalive(sender, payload, random) ==
    /\ block_exists(store_blocks, random)
    /\ LET first == contacted(peers, sender, version_using(sender), now)
           found == IF first.unknown
                    THEN endpoint_observer(rep_crawler_active, alarm, sent, sender, random, now)
                    ELSE [active |-> rep_crawler_active, alarm |-> alarm, sent |-> sent]
           merged == merge_peers(payload, first.peers, attempts, found.sent, now)
       IN  /\ peers' = first.peers
           /\ rep_crawler_active' = found.active
           /\ alarm' = found.alarm
           /\ attempts' = merged.attempts
           /\ sent' = merged.sent

\* a keepalive received from sender and dispatched to the visitor
Keepalive(sender, payload, random) ==
    /\ keepalive(sender, payload, random)
    /\ UNCHANGED <<work_vars, service_vars, added, now, logging, store_blocks, unchecked, gap_blocks, arrival,
          blocks, stopped, idle, txn, runner, log, forks, observed,
          store_votes, elections, roots, io, background, confirmations, republished,
          bootstraps, submitted, replies, peers_l, disconnects>>

\* node::ongoing_keepalive, run when its alarm operation is due:
\* keepalive_preconfigured, purge_list (now - cutoff), the keepalives to the
\* peers returned and the next run after period. At most MaxDisconnects calls
\* of the disconnect observer are followed.
OngoingKeepalive ==
    \E op \in alarm :
        /\ op.kind = "ongoing_keepalive"
        /\ op.wakeup <= now
        /\ LET purged == purge_list(peers, attempts, now - cutoff, now)
               greeted == sent \cup {Datagram("keepalive", e) : e \in preconfigured_peers}
           IN  /\ peers' = purged.peers
               /\ attempts' = purged.attempts
               /\ peers_l' \in purged.results
               /\ disconnects' = IF purged.disconnect THEN disconnects + 1 ELSE disconnects
               /\ disconnects' <= MaxDisconnects
               /\ sent' = keepalive_loop(peers_l', greeted, now)
        /\ alarm' = (alarm \ {op}) \cup {Operation(now + period, "ongoing_keepalive", 0)}
        /\ UNCHANGED <<work_vars, service_vars, added, now, logging, store_blocks, unchecked, gap_blocks, arrival,
              blocks, stopped, idle, txn, runner, log, forks, observed,
              store_votes, elections, roots, io, background, confirmations, republished,
              bootstraps, submitted, rep_crawler_active, replies>>

(***************************************************************************)
(* Block processor                                                         *)
(***************************************************************************)
Item(b, force) == [block |-> b, force |-> force]

logging_ledger_logging == logging.ledger_logging_value

logging_ledger_duplicate_logging == logging_ledger_logging /\ logging.ledger_duplicate_logging_value

Line(code, h) == [code |-> code, hash |-> h]

\* block_processor::add
block_processor_add(q, item) == Append(q, item)

\* node::process_active, called for every block received in a publish; each
\* block is published once
ProcessActive(b) ==
    /\ Len(blocks) < MaxPublishQueue
    /\ b \notin submitted
    /\ Cardinality(submitted) < MaxSubmitted
    /\ arrival' = block_arrival_add(arrival, now, b.hash)
    /\ added' = [added EXCEPT ![b.hash] = now]
    /\ submitted' = submitted \cup {b}
    /\ blocks' = block_processor_add(blocks, Item(b, FALSE))
    /\ UNCHANGED <<work_vars, service_vars, peer_vars, now, logging, store_blocks, unchecked, gap_blocks,
          stopped, idle, txn, runner, log, forks, observed,
          store_votes, elections, roots, io, background, confirmations, republished, bootstraps>>

\* block_processor::stop
Stop ==
    /\ ~stopped
    /\ stopped' = TRUE
    /\ UNCHANGED <<work_vars, service_vars, added, peer_vars, submitted, now, logging, store_blocks, unchecked, gap_blocks, arrival,
          blocks, idle, txn, runner, log, forks, observed,
          store_votes, elections, roots, io, background, confirmations, republished, bootstraps>>

\* block_processor::flush: the condition of its wait loop; flush returns in
\* every state in which the condition is false and changes nothing
flush_waits(stopped_l, blocks_l, idle_l) == ~stopped_l /\ (blocks_l # <<>> \/ ~idle_l)

\* block_processor::process_blocks, one pass of the loop under the mutex
ProcessBlocks ==
    /\ runner["bp"].pc = "top"
    /\ IF stopped
       THEN /\ runner' = [runner EXCEPT !["bp"].pc = "done"]
            /\ UNCHANGED <<blocks, idle>>
       ELSE IF blocks # <<>>
       THEN /\ runner' = [runner EXCEPT !["bp"] = Frame("many", blocks, <<>>)]
            /\ blocks' = <<>>
            /\ UNCHANGED idle
       ELSE /\ idle' = TRUE
            /\ runner' = [runner EXCEPT !["bp"].pc = "waiting"]
            /\ UNCHANGED blocks
    /\ UNCHANGED <<work_vars, service_vars, added, peer_vars, submitted, now, logging, store_blocks, unchecked, gap_blocks, arrival,
          stopped, txn, log, forks, observed,
          store_votes, elections, roots, io, background, confirmations, republished, bootstraps>>

\* block_processor::process_blocks, return from condition.wait
ProcessBlocksWake ==
    /\ runner["bp"].pc = "waiting"
    /\ blocks # <<>> \/ stopped
    /\ idle' = FALSE
    /\ runner' = [runner EXCEPT !["bp"].pc = "top"]
    /\ UNCHANGED <<work_vars, service_vars, added, peer_vars, submitted, now, logging, store_blocks, unchecked, gap_blocks, arrival,
          blocks, stopped, txn, log, forks, observed,
          store_votes, elections, roots, io, background, confirmations, republished, bootstraps>>

replace_existing_unverified(existing, b) ==
    /\ existing # NoBlock
    /\ work_value(b) > work_value(existing)

\* process_receive_one, result old: whether the stored block is replaced by b
replace_existing(existing, b) ==
    /\ existing # NoBlock
    /\ work_value(b) > work_value(existing)
    /\ ~validate_message(b)

\* the stored block replaced without its successor pointer
block_replace_unlinked(st, b) == block_put(st, b, 0)

\* process_receive_one, result old: block_put of b over the stored block,
\* with the successor the store holds for it
block_replace(st, b) == block_put(st, b, block_successor(st, b.hash))

\* process_receive_one handing every fork to the bootstrap initiator
process_receive_one_forward_all(st, u, gb, arr, t, b) ==
    LET result == ledger_process(st, b)
        code == result.code
        hash == b.hash
        existing == block_get(result.store, hash)
        replace == code = "old" /\ replace_existing(existing, b)
        recent == block_arrival_recent(arr, t, hash)
    IN  [code |-> code,
         store |-> IF replace THEN block_replace(result.store, b) ELSE result.store,
         unchecked |-> CASE code = "gap_previous" -> unchecked_put(u, previous(hash), b)
                         [] code = "gap_source" -> unchecked_put(u, source(hash), b)
                         [] OTHER -> u,
         gap |-> IF code \in {"gap_previous", "gap_source"} THEN gap_cache_add(gb, t, b) ELSE gb,
         arrival |-> IF code = "fork" THEN block_arrival_purged(arr, t) ELSE arr,
         forks |-> IF code = "fork" THEN {b} ELSE {},
         lines |-> (IF replace THEN {Line("replacing", hash)} ELSE {})
                   \cup (CASE code = "old" ->
                               IF logging_ledger_duplicate_logging THEN {Line(code, hash)} ELSE {}
                           [] code = "account_mismatch" ->
                               (IF logging_ledger_logging THEN {Line(code, hash)} ELSE {})
                               \cup {Line("opened_burn_account", hash)}
                           [] code = "opened_burn_account" -> {Line(code, hash)}
                           [] OTHER ->
                               IF logging_ledger_logging THEN {Line(code, hash)} ELSE {})]

\* block_processor::process_receive_one: the ledger result and what the switch does with it
process_receive_one(st, u, gb, arr, t, b) ==
    LET result == ledger_process(st, b)
        code == result.code
        hash == b.hash
        existing == block_get(result.store, hash)
        replace == code = "old" /\ replace_existing(existing, b)
        recent == block_arrival_recent(arr, t, hash)
    IN  [code |-> code,
         store |-> IF replace THEN block_replace(result.store, b) ELSE result.store,
         unchecked |-> CASE code = "gap_previous" -> unchecked_put(u, previous(hash), b)
                         [] code = "gap_source" -> unchecked_put(u, source(hash), b)
                         [] OTHER -> u,
         gap |-> IF code \in {"gap_previous", "gap_source"} THEN gap_cache_add(gb, t, b) ELSE gb,
         arrival |-> IF code = "fork" THEN block_arrival_purged(arr, t) ELSE arr,
         forks |-> IF code = "fork" /\ ~recent THEN {b} ELSE {},
         lines |-> (IF replace THEN {Line("replacing", hash)} ELSE {})
                   \cup (CASE code = "old" ->
                               IF logging_ledger_duplicate_logging THEN {Line(code, hash)} ELSE {}
                           [] code = "account_mismatch" ->
                               (IF logging_ledger_logging THEN {Line(code, hash)} ELSE {})
                               \cup {Line("opened_burn_account", hash)}
                           [] code = "opened_burn_account" -> {Line(code, hash)}
                           [] OTHER ->
                               IF logging_ledger_logging THEN {Line(code, hash)} ELSE {})]

\* process_receive_many, force path: whether the root's successor is rolled back
force_rollback(item, successor) ==
    /\ item.force
    /\ successor # NoBlock
    /\ hash2_calc(item.block) # hash2_calc(successor)

\* process_receive_many: one iteration of the inner loop, on the item at the front
process_item(r) ==
    LET item == Head(runner[r].queue)
        rest == Tail(runner[r].queue)
        successor == ledger_successor(store_blocks, root(item.block))
        rollback == force_rollback(item, successor)
        st == IF rollback THEN ledger_rollback(store_blocks, successor.hash) ELSE store_blocks
        hash == item.block.hash
        one == process_receive_one(st, unchecked, gap_blocks, arrival, now, item.block)
        unwind == one.code \in {"progress", "old"}
        cached == IF unwind THEN unchecked_get(one.unchecked, hash) ELSE <<>>
        children == [i \in 1..Len(cached) |-> Item(cached[i], FALSE)]
    IN  [code |-> one.code,
         store |-> one.store,
         unchecked |-> unchecked_del_all(one.unchecked, hash, cached),
         gap |-> IF unwind THEN gap_cache_erase(one.gap, hash) ELSE one.gap,
         arrival |-> one.arrival,
         forks |-> one.forks,
         lines |-> one.lines \cup (IF rollback THEN {Line("rolling_back", successor.hash)} ELSE {}),
         queue |-> PushFrontAll(children, rest),
         progress |-> IF one.code = "progress"
                      THEN Append(runner[r].progress, item.block) ELSE runner[r].progress]

ApplyItem(r, out, pc) ==
    /\ store_blocks' = out.store
    /\ unchecked' = out.unchecked
    /\ gap_blocks' = out.gap
    /\ arrival' = out.arrival
    /\ forks' = forks \cup out.forks
    /\ log' = log \cup out.lines
    /\ runner' = [runner EXCEPT ![r].queue = out.queue, ![r].progress = out.progress, ![r].pc = pc]

\* process_receive_many: open the write transaction of a batch and set its cutoff
BatchBegin(r) ==
    /\ runner[r].pc = "many"
    /\ runner[r].queue # <<>>
    /\ txn = "none"
    /\ txn' = r
    /\ runner' = [runner EXCEPT ![r].pc = "begun", ![r].progress = <<>>]
    /\ UNCHANGED <<work_vars, service_vars, added, peer_vars, submitted, now, logging, store_blocks, unchecked, gap_blocks, arrival,
          blocks, stopped, idle, log, forks, observed,
          store_votes, elections, roots, io, background, confirmations, republished, bootstraps>>

\* process_receive_many: one iteration of the inner loop, before the cutoff
ProcessItem(r) ==
    /\ runner[r].pc \in {"begun", "batch"}
    /\ runner[r].queue # <<>>
    /\ ApplyItem(r, process_item(r), "batch")
    /\ UNCHANGED <<work_vars, service_vars, added, peer_vars, submitted, now, logging, blocks, stopped, idle, txn, observed,
          store_votes, elections, roots, io, background, confirmations, republished, bootstraps>>

\* where process_receive_many goes when a batch has no observer call left
AfterBatch(r, queue) ==
    IF queue # <<>> THEN "many" ELSE IF r = "bp" THEN "top" ELSE "idle"

\* process_receive_many: the inner loop ends (queue empty or cutoff reached), transaction closed
BatchEnd(r) ==
    /\ runner[r].pc = "batch"
    /\ txn' = "none"
    /\ runner' = [runner EXCEPT ![r].pc =
                     IF runner[r].progress # <<>> THEN "observe"
                     ELSE AfterBatch(r, runner[r].queue)]
    /\ UNCHANGED <<work_vars, service_vars, added, peer_vars, submitted, now, logging, store_blocks, unchecked, gap_blocks, arrival,
          blocks, stopped, idle, log, forks, observed,
          store_votes, elections, roots, io, background, confirmations, republished, bootstraps>>

(***************************************************************************)
(* Active transactions                                                     *)
(***************************************************************************)
RECURSIVE compute_rep_votes(_, _, _)
\* election::compute_rep_votes over the wallet's representatives reps:
\* every one of them votes for last_winner
compute_rep_votes(el, sv, reps) ==
    IF reps = {} THEN [el |-> el, votes |-> sv]
    ELSE LET a == CHOOSE x \in reps : TRUE
             g == vote_generate(sv, a, el.last_winner)
         IN  compute_rep_votes([el EXCEPT !.rep_votes = votes_vote(@, g.vote)],
                               g.votes, reps \ {a})

\* election::election
election_new(b, t, sv) ==
    compute_rep_votes([root |-> root(b), rep_votes |-> votes_init(b), last_vote |-> t,
                       last_winner |-> b, confirmed |-> FALSE], sv, LocalReps)

RootIndex(rs, r) == IF \E i \in 1..Len(rs) : rs[i].root = r
                    THEN CHOOSE i \in 1..Len(rs) : rs[i].root = r
                    ELSE 0

LocalSeqRoom(sv, n) == \A a \in LocalReps : sv[a].sequence + n <= MaxLocalSeq

Event(type, h, account, n, pending) ==
    [type |-> type, hash |-> h, account |-> account, amount |-> n, pending |-> pending]

account(h) == 6

\* the observer calls with the balance notified for every accepted block
BlockEvents_any_amount(b) ==
    <<Event("blocks", b.hash, account(b.hash), amount(b.hash), FALSE),
      Event("account_balance", 0, account(b.hash), 0, FALSE)>>
    \o (IF pending_account(b.hash) # 0
        THEN <<Event("account_balance", 0, pending_account(b.hash), 0, TRUE)>>
        ELSE <<>>)

\* the observer calls process_receive_many makes for one accepted block
BlockEvents(b) ==
    <<Event("blocks", b.hash, account(b.hash), amount(b.hash), FALSE)>>
    \o (IF amount(b.hash) > 0
        THEN <<Event("account_balance", 0, account(b.hash), 0, FALSE)>>
             \o (IF pending_account(b.hash) # 0
                 THEN <<Event("account_balance", 0, pending_account(b.hash), 0, TRUE)>>
                 ELSE <<>>)
        ELSE <<>>)

\* process_receive_many: observers of the next accepted block of the batch;
\* observers.blocks starts an election for a block that arrived recently
Observe(r) ==
    /\ runner[r].pc = "observe"
    /\ runner[r].progress # <<>>
    /\ LET b == Head(runner[r].progress)
           recent == block_arrival_recent(arrival, now, b.hash)
           existing == RootIndex(roots, root(b))
       IN  /\ arrival' = block_arrival_purged(arrival, now)
           /\ observed' = observed \o BlockEvents(b)
           /\ IF recent /\ existing = 0
              THEN /\ txn = "none"
                   /\ Len(elections) < MaxElections
                   /\ LocalSeqRoom(store_votes, 1)
                   /\ LET new == election_new(b, now, store_votes)
                      IN  /\ elections' = Append(elections, new.el)
                          /\ store_votes' = new.votes
                          /\ roots' = Append(roots, [root |-> root(b),
                                                     election |-> Len(elections) + 1,
                                                     announcements |-> 0])
              ELSE /\ recent => txn = "none"
                   /\ UNCHANGED <<elections, store_votes, roots>>
    /\ runner' = [runner EXCEPT ![r].progress = Tail(@),
                                ![r].pc = IF Tail(runner[r].progress) # <<>> THEN "observe"
                                          ELSE AfterBatch(r, runner[r].queue)]
    /\ UNCHANGED <<work_vars, service_vars, added, peer_vars, submitted, now, logging, store_blocks, unchecked, gap_blocks,
          blocks, stopped, idle, txn, log, forks,
          io, background, confirmations, republished, bootstraps>>

\* the confirm_acks peers send: rA votes for block 3, with a good or a bad
\* signature; rB votes for block 2 and then, with its next sequence number,
\* for block 3
VoteInputs ==
    {Vote("rA", 1, Blk(3, 1, TRUE), s) : s \in BOOLEAN}
    \cup {Vote("rB", 1, Blk(2, 1, TRUE), TRUE), Vote("rB", 2, Blk(3, 1, TRUE), TRUE)}

\* vote_processor::vote: validation under a read transaction
vote_processor_vote(sv, v, kind) ==
    LET result == vote_validate(sv, v)
    IN  [result EXCEPT !.code = IF @ = "vote" THEN kind ELSE @]

\* every vote handed to the observers, whatever the validation said
vote_observed_any(code) == TRUE

\* whether vote_processor::vote hands the vote to observers.vote
vote_observed(code) == code \in {"vote", "vote2"}

republish_min_weight == 2

\* republish_vote without the test of last_vote
republish_vote_unlimited(last_vote, t, v) == weight(v.account) > republish_min_weight

\* network::republish_vote: whether the vote is fanned out
republish_vote(last_vote, t, v) == last_vote < t - 1 /\ weight(v.account) > republish_min_weight

replay_assist_gap == 10000

MaxReplies == 2

\* the stored vote sent back on every replay, however close the sequences
replay_assist_any(result, v) == result.code = "replay"

\* network_message_visitor::confirm_ack, replay branch: whether the stored vote
\* is sent back to the sender
replay_assist(result, v) ==
    result.code = "replay" /\ result.vote.sequence - v.sequence > replay_assist_gap

Reply(v, to, t) == [vote |-> v, to |-> to, time |-> t]

\* a reply to a stale vote only when none was sent during the second t
confirm_ack_reply_limited(rs, result, v, sender, t) ==
    IF replay_assist(result, v) /\ \A r \in BagToSet(rs) : r.time # t
    THEN rs (+) SetToBag({Reply(result.vote, sender, t)})
    ELSE rs

\* network_message_visitor::confirm_ack, replay branch: the confirm_acks sent
\* in reply, one with the stored vote to the sender of a stale vote
confirm_ack_reply(rs, result, v, sender, t) ==
    IF replay_assist(result, v)
    THEN rs (+) SetToBag({Reply(result.vote, sender, t)})
    ELSE rs

\* confirm_ack received from a peer: peers.contacted and peers.insert (a new
\* peer is sent a keepalive and a rep query about the block random),
\* process_active on the vote's block, vote_processor.vote and the three vote
\* observers (active.vote, where election::vote republishes the vote and then
\* waits for the write transaction; gap_cache.vote; rep_response when the
\* block is one the rep crawler asks about), and the reply to a stale vote.
\* At most MaxQueue blocks brought by votes are queued or in the batch at a time.
ConfirmAck(t, v, kind, sender, random) ==
    /\ io[t].pc = "idle"
    /\ Len(blocks) + Len(runner["bp"].queue) < MaxQueue
    /\ block_exists(store_blocks, random)
    /\ arrival' = block_arrival_add(arrival, now, v.block.hash)
    /\ added' = [added EXCEPT ![v.block.hash] = now]
    /\ submitted' = submitted \cup {v.block}
    /\ blocks' = block_processor_add(blocks, Item(v.block, FALSE))
    /\ LET first == contacted(peers, sender, version_using(sender), now)
           second == peers_insert(first.peers, sender, version_using(sender), now)
           found == IF first.unknown \/ second.unknown
                    THEN endpoint_observer(rep_crawler_active, alarm, sent, sender, random, now)
                    ELSE [active |-> rep_crawler_active, alarm |-> alarm, sent |-> sent]
           result == vote_processor_vote(store_votes, v, kind)
           seen == vote_observed(result.code)
           existing == RootIndex(roots, root(v.block))
           e == roots[existing].election
           gap == IF seen THEN gap_cache_vote(gap_blocks, v) ELSE [gap |-> gap_blocks, check |-> FALSE]
           hash == v.block.hash
       IN  /\ store_votes' = result.votes
           /\ rep_crawler_active' = found.active
           /\ sent' = found.sent
           /\ IF /\ seen
                 /\ ~hash2_aware(second.peers, sender) \/ result.code = "vote2"
                 /\ existing # 0
              THEN /\ io' = [io EXCEPT ![t] = IoFrame("txn", v, e)]
                   /\ republished' = IF republish_vote(elections[e].last_vote, now, v)
                                     THEN republished (+) SetToBag({[vote |-> v, time |-> now]})
                                     ELSE republished
                   /\ elections' = [elections EXCEPT ![e].last_vote = now]
              ELSE UNCHANGED <<io, republished, elections>>
           /\ gap_blocks' = gap.gap
           /\ alarm' = IF gap.check
                       THEN found.alarm \cup {Operation(now + 5, "gap_bootstrap", hash)}
                       ELSE found.alarm
           /\ peers' = IF seen /\ hash \in found.active
                       THEN rep_response(second.peers, sender, weight(v.account))
                       ELSE second.peers
           /\ replies' = confirm_ack_reply(replies, result, v, sender, now)
           /\ BagCardinality(replies') <= MaxReplies
    /\ UNCHANGED <<work_vars, service_vars, now, logging, store_blocks, unchecked,
          stopped, idle, txn, runner, log, forks, observed,
          roots, background, confirmations, bootstraps,
          attempts, peers_l, disconnects>>

RECURSIVE Post(_, _)
\* node.background of every operation of list
Post(bg, list) ==
    IF list = <<>> THEN bg ELSE Post(bg (+) SetToBag({Head(list)}), Tail(list))

\* election::vote, under its write transaction: record the vote, confirm on quorum
ElectionVoteTxn(t) ==
    /\ io[t].pc = "txn"
    /\ txn = "none"
    /\ LET e == io[t].election
           voted == [elections[e] EXCEPT !.rep_votes = votes_vote(@, io[t].vote)]
           done == confirm_if_quorum(voted, e)
       IN  /\ elections' = [elections EXCEPT ![e] = done.el]
           /\ background' = Post(background, done.posted)
    /\ io' = [io EXCEPT ![t] = IoFrame("idle", NoVote, 0)]
    /\ UNCHANGED <<work_vars, service_vars, added, peer_vars, submitted, now, logging, store_blocks, unchecked, gap_blocks, arrival,
          blocks, stopped, idle, txn, runner, log, forks, observed,
          store_votes, roots, confirmations, republished, bootstraps>>

contigious_announcements == 4
announcements_per_interval == 20

RECURSIVE announce_loop_late(_, _, _)
\* announce_votes with the cutoff taken one announcement later
announce_loop_late(i, announcements, acc) ==
    IF i > Len(acc.roots) THEN acc
    ELSE LET info == acc.roots[i]
             e == info.election
             broadcast == Task("broadcast_winner", NoBlock, e, FALSE)
         IN  IF info.announcements >= contigious_announcements
             THEN LET cut == confirm_once(acc.elections[e], e)
                  IN  announce_loop_late(i + 1, announcements,
                        [acc EXCEPT !.elections[e] = cut.el,
                                    !.posted = @ \o <<broadcast>> \o cut.posted,
                                    !.inactive = @ \cup {info.root}])
             ELSE announce_loop_late(i + 1, announcements,
                        [acc EXCEPT !.roots[i].announcements = info.announcements + 1,
                                    !.posted = @ \o <<broadcast>>])

RECURSIVE announce_loop(_, _, _)
\* active_transactions::announce_votes: the two loops over roots, from position i;
\* acc carries roots, elections, the operations posted, the roots to erase and
\* the bootstrap requests; announcements is the loop's local counter
announce_loop(i, announcements, acc) ==
    IF i > Len(acc.roots) THEN acc
    ELSE IF announcements < announcements_per_interval
    THEN LET info == acc.roots[i]
             e == info.election
             broadcast == Task("broadcast_winner", NoBlock, e, FALSE)
         IN  IF info.announcements >= contigious_announcements - 1
             THEN LET cut == confirm_once(acc.elections[e], e)
                  IN  announce_loop(i + 1, announcements,
                        [acc EXCEPT !.elections[e] = cut.el,
                                    !.posted = @ \o <<broadcast>> \o cut.posted,
                                    !.inactive = @ \cup {info.root}])
             ELSE LET n == info.announcements + 1
                  IN  announce_loop(i + 1, announcements,
                        [acc EXCEPT !.roots[i].announcements = n,
                                    !.posted = @ \o <<broadcast>>,
                                    !.bootstraps = IF n > 1 /\ Cardinality(Voted(acc.elections[e].rep_votes)) <= 1
                                                   THEN @ + 1 ELSE @])
    ELSE announce_loop(i + 1, announcements, [acc EXCEPT !.roots[i].announcements = 0])

MaxBootstraps == 2

\* active_transactions::announce_votes, one tick of the alarm
AnnounceVotes ==
    /\ txn = "none"
    /\ roots # <<>>
    /\ LET out == announce_loop(1, 0, [roots |-> roots, elections |-> elections,
                                       posted |-> <<>>, inactive |-> {}, bootstraps |-> 0])
       IN  /\ roots' = SelectSeq(out.roots, LAMBDA info : info.root \notin out.inactive)
           /\ elections' = out.elections
           /\ background' = Post(background, out.posted)
           /\ bootstraps' = IF bootstraps + out.bootstraps > MaxBootstraps
                            THEN MaxBootstraps ELSE bootstraps + out.bootstraps
    /\ UNCHANGED <<work_vars, service_vars, added, peer_vars, submitted, now, logging, store_blocks, unchecked, gap_blocks, arrival,
          blocks, stopped, idle, txn, runner, log, forks, observed,
          store_votes, io, confirmations, republished>>

enable_voting == TRUE

RECURSIVE confirm_block(_, _, _)
\* confirm_block: every wallet representative generates a vote for the block
confirm_block(sv, reps, b) ==
    IF reps = {} \/ ~enable_voting THEN sv
    ELSE LET a == CHOOSE x \in reps : TRUE
         IN  confirm_block(vote_generate(sv, a, b).votes, reps \ {a}, b)

\* election::broadcast_winner, run by the executor
RunBroadcast(task) ==
    /\ task.type = "broadcast_winner"
    /\ BagIn(task, background)
    /\ txn = "none"
    /\ LocalSeqRoom(store_votes, 2)
    /\ LET e == task.election
           voted == compute_rep_votes(elections[e], store_votes, LocalReps)
       IN  /\ elections' = [elections EXCEPT ![e] = voted.el]
           /\ store_votes' = confirm_block(voted.votes, LocalReps, voted.el.last_winner)
    /\ background' = background (-) SetToBag({task})
    /\ UNCHANGED <<work_vars, service_vars, added, peer_vars, submitted, now, logging, store_blocks, unchecked, gap_blocks, arrival,
          blocks, stopped, idle, txn, runner, log, forks, observed,
          roots, io, confirmations, republished, bootstraps>>

\* the operation confirm_once posts: process_confirmed and confirmation_action
RunConfirmed(task) ==
    /\ task.type = "confirmed"
    /\ BagIn(task, background)
    /\ confirmations' = Append(confirmations, task)
    /\ background' = background (-) SetToBag({task})
    /\ UNCHANGED <<work_vars, service_vars, added, peer_vars, submitted, now, logging, store_blocks, unchecked, gap_blocks, arrival,
          blocks, stopped, idle, txn, runner, log, forks, observed,
          store_votes, elections, roots, io, republished, bootstraps>>

\* the operation confirm_once posts for a replaced winner:
\* block_processor.process_receive_many (block_processor_item (block, true))
RunForced(task) ==
    /\ task.type = "process_receive_many"
    /\ BagIn(task, background)
    /\ runner["bg"].pc = "idle"
    /\ runner' = [runner EXCEPT !["bg"] = Frame("many", <<Item(task.block, task.flag)>>, <<>>)]
    /\ background' = background (-) SetToBag({task})
    /\ UNCHANGED <<work_vars, service_vars, added, peer_vars, submitted, now, logging, store_blocks, unchecked, gap_blocks, arrival,
          blocks, stopped, idle, txn, log, forks, observed,
          store_votes, elections, roots, io, confirmations, republished, bootstraps>>

Tasks == BagToSet(background)

(***************************************************************************)
(* Distributed work: one request raced over the configured work peers,     *)
(* with the local pool as fallback                                         *)
(***************************************************************************)
MaxWorkPeers == 3

WorkPeers == 1..MaxWorkPeers

\* config.work_peers as configured: none, or the first n addresses
WorkPeerConfigs == {1..n : n \in 0..MaxWorkPeers}

publish_threshold == 2

WorkValues == 0..3

\* true when the work does NOT meet the threshold for the root
work_validate(w) == w < publish_threshold

\* what a connection ends with: a 200 response whose body holds a work number,
\* a body whose work field is not a number, a body that is not JSON, or an
\* error (connect, write, read, or a status that is not 200)
Response(kind, w) == [kind |-> kind, work |-> w]

NoResponse == Response("none", 0)

Responses ==
    {Response("work", w) : w \in WorkValues}
    \cup {Response("not_number", 0), Response("unparsable", 0), Response("error", 0)}

ValidWork(resp) == resp.kind = "work" /\ ~work_validate(resp.work)

Connection(pc, resp, last) == [pc |-> pc, response |-> resp, last |-> last]

\* callback (work_a)
callback(calls, w, from) == Append(calls, [work |-> w, from |-> from])

InitWork(configs) ==
    /\ work_peers \in configs
    /\ work_request = "none"
    /\ outstanding = {}
    /\ completed = FALSE
    /\ connection = [p \in WorkPeers |-> Connection("none", NoResponse, FALSE)]
    /\ work_cancels = {}
    /\ work_pool = "idle"
    /\ work_callbacks = <<>>

remove_keeping(out, address) == [outstanding |-> out, last |-> out = {}]

\* distributed_work::remove
remove(out, address) == [outstanding |-> out \ {address}, last |-> out \ {address} = {}]

set_once_unlatched(flag, calls, w) == [completed |-> TRUE, calls |-> callback(calls, w, "peer")]

\* distributed_work::set_once
set_once(flag, calls, w) ==
    LET latch == test_and_set(flag)
    IN  [completed |-> latch.new,
         calls |-> IF ~latch.old THEN callback(calls, w, "peer") ELSE calls]

\* distributed_work::handle_failure: hands the root to the local pool
handle_failure(flag, pool, last) ==
    IF last
    THEN LET latch == test_and_set(flag)
         IN  [completed |-> latch.new, pool |-> IF ~latch.old THEN "generating" ELSE pool]
    ELSE [completed |-> flag, pool |-> pool]

\* distributed_work::stop
stop(out, cancels) == [outstanding |-> {}, cancels |-> cancels \cup out]

\* node::generate_work (root, callback): constructs the request and starts it
GenerateWork ==
    /\ work_request = "none"
    /\ work_request' = "started"
    /\ IF work_peers # {}
       THEN /\ outstanding' = work_peers
            /\ connection' = [p \in WorkPeers |->
                                IF p \in work_peers
                                THEN Connection("waiting", NoResponse, FALSE)
                                ELSE connection[p]]
            /\ UNCHANGED <<completed, work_pool>>
       ELSE LET fail == handle_failure(completed, work_pool, TRUE)
            IN  /\ completed' = fail.completed
                /\ work_pool' = fail.pool
                /\ UNCHANGED <<outstanding, connection>>
    /\ UNCHANGED <<node_vars, work_peers, work_cancels, work_callbacks>>

\* a connection's handler is entered with its outcome: success (body, address)
\* or failure (address); both begin with remove (address) under the mutex
WorkResponse(p, resp) ==
    /\ connection[p].pc = "waiting"
    /\ LET removed == remove(outstanding, p)
       IN  /\ outstanding' = removed.outstanding
           /\ connection' = [connection EXCEPT ![p] = Connection("handling", resp, removed.last)]
    /\ UNCHANGED <<node_vars, work_peers, work_request, completed, work_cancels,
                   work_pool, work_callbacks>>

\* the rest of success up to stop (), or of failure
WorkHandle(p) ==
    /\ connection[p].pc = "handling"
    /\ LET c == connection[p]
       IN  IF ValidWork(c.response)
           THEN LET set == set_once(completed, work_callbacks, c.response.work)
                IN  /\ completed' = set.completed
                    /\ work_callbacks' = set.calls
                    /\ connection' = [connection EXCEPT ![p].pc = "stop"]
                    /\ UNCHANGED work_pool
           ELSE LET fail == handle_failure(completed, work_pool, c.last)
                IN  /\ completed' = fail.completed
                    /\ work_pool' = fail.pool
                    /\ connection' = [connection EXCEPT ![p].pc = "done"]
                    /\ UNCHANGED work_callbacks
    /\ UNCHANGED <<node_vars, work_peers, work_request, outstanding, work_cancels>>

\* stop () at the end of success with valid work
WorkStop(p) ==
    /\ connection[p].pc = "stop"
    /\ LET stopped_l == stop(outstanding, work_cancels)
       IN  /\ outstanding' = stopped_l.outstanding
           /\ work_cancels' = stopped_l.cancels
    /\ connection' = [connection EXCEPT ![p].pc = "done"]
    /\ UNCHANGED <<node_vars, work_peers, work_request, completed, work_pool, work_callbacks>>

\* the local pool finishes the root and calls back with work it generated
WorkPoolComplete(w) ==
    /\ work_pool = "generating"
    /\ ~work_validate(w)
    /\ work_pool' = "done"
    /\ work_callbacks' = callback(work_callbacks, w, "pool")
    /\ UNCHANGED <<node_vars, work_peers, work_request, outstanding, completed,
                   connection, work_cancels>>

Next ==
    \/ Tick
    \/ \E b \in Blocks : ProcessActive(b)
    \/ Stop
    \/ ProcessBlocks
    \/ ProcessBlocksWake
    \/ \E r \in Runners : BatchBegin(r)
    \/ \E r \in Runners : ProcessItem(r)
    \/ \E r \in Runners : BatchEnd(r)
    \/ \E r \in Runners : Observe(r)
    \/ \E t \in IoThreads, v \in VoteInputs, kind \in {"vote", "vote2"},
          sender \in Endpoints, random \in AllHashes :
          ConfirmAck(t, v, kind, sender, random)
    \/ \E t \in IoThreads : ElectionVoteTxn(t)
    \/ AnnounceVotes
    \/ \E task \in Tasks : RunBroadcast(task)
    \/ \E task \in Tasks : RunConfirmed(task)
    \/ \E task \in Tasks : RunForced(task)
    \/ GenerateWork
    \/ \E p \in WorkPeers, resp \in Responses : WorkResponse(p, resp)
    \/ \E p \in WorkPeers : WorkHandle(p)
    \/ \E p \in WorkPeers : WorkStop(p)
    \/ \E w \in WorkValues : WorkPoolComplete(w)

Init == InitWith(LoggingConfigs) /\ InitWork(WorkPeerConfigs) /\ InitPeers({NoPeers, KnownPeers})

Spec == Init /\ [][Next]_vars

InitElection ==
    /\ InitWith({[ledger_logging_value |-> FALSE, ledger_duplicate_logging_value |-> FALSE]})
    /\ InitWork({{}})
    /\ InitPeers({KnownPeers})

NextElection ==
    \/ ProcessBlocks
    \/ ProcessBlocksWake
    \/ \E r \in Runners : BatchBegin(r)
    \/ \E r \in Runners : ProcessItem(r)
    \/ \E r \in Runners : BatchEnd(r)
    \/ \E r \in Runners : Observe(r)
    \/ \E t \in IoThreads, v \in VoteInputs, kind \in {"vote", "vote2"}, sender \in Endpoints :
          ConfirmAck(t, v, kind, sender, GenesisHash)
    \/ \E t \in IoThreads : ElectionVoteTxn(t)
    \/ AnnounceVotes
    \/ \E task \in Tasks : RunBroadcast(task)
    \/ \E task \in Tasks : RunConfirmed(task)
    \/ \E task \in Tasks : RunForced(task)

SpecElection == InitElection /\ [][NextElection]_vars

\* the confirm_acks of a fork whose winning block reaches the node only as a
\* copy with a bad block signature: rB votes for block 2 and then, like rA, for
\* that copy of block 3 (a vote's signature covers the block hash, not the
\* block's own signature)
ForkInputs ==
    {Vote("rB", 1, Blk(2, 1, TRUE), TRUE), Vote("rB", 2, Blk(3, 1, FALSE), TRUE),
     Vote("rA", 1, Blk(3, 1, FALSE), TRUE)}

NextFork ==
    \/ ProcessBlocks
    \/ ProcessBlocksWake
    \/ \E r \in Runners : BatchBegin(r)
    \/ \E r \in Runners : ProcessItem(r)
    \/ \E r \in Runners : BatchEnd(r)
    \/ \E r \in Runners : Observe(r)
    \/ \E t \in IoThreads, v \in ForkInputs, kind \in {"vote", "vote2"}, sender \in Endpoints :
          ConfirmAck(t, v, kind, sender, GenesisHash)
    \/ \E t \in IoThreads : ElectionVoteTxn(t)
    \/ AnnounceVotes
    \/ \E task \in Tasks : RunBroadcast(task)
    \/ \E task \in Tasks : RunConfirmed(task)
    \/ \E task \in Tasks : RunForced(task)

SpecFork == InitElection /\ [][NextFork]_vars

(***************************************************************************)
(* block_processor::stop while elections confirm                           *)
(***************************************************************************)
NextStop ==
    \/ Stop
    \/ NextFork

SpecStop == InitElection /\ [][NextStop]_vars

MaxSeconds == 4

\* the confirm_acks of a representative that votes again and again on one root
\* (rB, whose weight is above the republish minimum), and one vote of rA, whose
\* weight is not
RepublishInputs ==
    {Vote("rB", 1, Blk(2, 1, TRUE), TRUE), Vote("rB", 2, Blk(3, 1, TRUE), TRUE),
     Vote("rB", 3, Blk(2, 1, TRUE), TRUE), Vote("rA", 1, Blk(2, 1, TRUE), TRUE)}

\* votes delivered to an election second after second
NextRepublish ==
    \/ Elapse(1, MaxSeconds)
    \/ ProcessBlocks
    \/ ProcessBlocksWake
    \/ \E r \in Runners : BatchBegin(r)
    \/ \E r \in Runners : ProcessItem(r)
    \/ \E r \in Runners : BatchEnd(r)
    \/ \E r \in Runners : Observe(r)
    \/ \E t \in IoThreads, v \in RepublishInputs :
          ConfirmAck(t, v, "vote", "p1", GenesisHash)
    \/ \E t \in IoThreads : ElectionVoteTxn(t)

SpecRepublish == InitElection /\ [][NextRepublish]_vars

(***************************************************************************)
(* block_arrival called directly                                           *)
(***************************************************************************)
MaxArrivalSteps == 13

ArrivalStep == 10

ArrivalHashes == {2, 3}

\* block_arrival::add (hash)
ArrivalAdd(h) ==
    /\ arrival' = block_arrival_add(arrival, now, h)
    /\ added' = [added EXCEPT ![h] = now]
    /\ UNCHANGED <<work_vars, service_vars, peer_vars, submitted, now, logging, store_blocks,
          unchecked, gap_blocks, blocks, stopped, idle, txn, runner, log, forks, observed,
          store_votes, elections, roots, io, background, confirmations, republished, bootstraps>>

\* block_arrival::recent (hash): the entries older than the window are erased
ArrivalRecent(h) ==
    /\ arrival' = block_arrival_purged(arrival, now)
    /\ UNCHANGED <<work_vars, service_vars, added, peer_vars, submitted, now, logging, store_blocks,
          unchecked, gap_blocks, blocks, stopped, idle, txn, runner, log, forks, observed,
          store_votes, elections, roots, io, background, confirmations, republished, bootstraps>>

NextArrival ==
    \/ Elapse(ArrivalStep, MaxArrivalSteps * ArrivalStep)
    \/ \E h \in ArrivalHashes : ArrivalAdd(h)
    \/ \E h \in ArrivalHashes : ArrivalRecent(h)

InitArrival ==
    /\ InitWith({[ledger_logging_value |-> FALSE, ledger_duplicate_logging_value |-> FALSE]})
    /\ InitWork({{}})
    /\ InitPeers({NoPeers})

SpecArrival == InitArrival /\ [][NextArrival]_vars

(***************************************************************************)
(* a block published a second time                                         *)
(***************************************************************************)
\* node::process_active for a block received in a second publish, once the
\* processor has drained the first one and while block_arrival still holds
\* the hash
ProcessActiveAgain(b) ==
    /\ resubmitted = NoResubmit
    /\ b \in submitted
    /\ blocks = <<>> /\ runner["bp"].pc \in {"top", "waiting"}
    /\ block_arrival_recent(arrival, now, b.hash)
    /\ arrival' = block_arrival_add(arrival, now, b.hash)
    /\ added' = [added EXCEPT ![b.hash] = now]
    /\ blocks' = block_processor_add(blocks, Item(b, FALSE))
    /\ resubmitted' = [block |-> b, store_blocks |-> store_blocks, unchecked |-> unchecked,
                       observed |-> observed]
    /\ UNCHANGED <<work_vars, locking, node_held, alarm_thread, posted, network, peer_vars, submitted, now, logging, store_blocks,
          unchecked, gap_blocks, stopped, idle, txn, runner, log, forks, observed,
          store_votes, elections, roots, io, background, confirmations, republished, bootstraps>>

NextResubmit ==
    \/ \E b \in Blocks : resubmitted = NoResubmit /\ ProcessActive(b)
    \/ \E b \in Blocks : ProcessActiveAgain(b)
    \/ ProcessBlocks
    \/ ProcessBlocksWake
    \/ \E r \in Runners : BatchBegin(r)
    \/ \E r \in Runners : ProcessItem(r)
    \/ \E r \in Runners : BatchEnd(r)
    \/ \E r \in Runners : Observe(r)

SpecResubmit == InitArrival /\ [][NextResubmit]_vars

(***************************************************************************)
(* The alarm thread                                                        *)
(***************************************************************************)
MaxOperations == 3

MaxAlarmSteps == 3

AlarmStep == 5

AlarmDelays == {0, AlarmStep, 2 * AlarmStep}

\* the operations alarm::run can find at operations.top () when it picks any
\* queued operation
alarm_top_any(ops) == ops

\* operations.top () of the priority queue ordered by operation::operator>:
\* an operation with the smallest wakeup
alarm_top(ops) == {op \in ops : \A other \in ops : ~(op.wakeup > other.wakeup)}

\* the shutdown sentinel is in the queue
SentinelAdded == \E op \in alarm : op.kind = "null"

\* operations added so far
OperationsAdded == Cardinality({op \in alarm : op.kind # "null"}) + Len(posted)

\* alarm::run, one pass of the loop under the mutex
AlarmRun ==
    /\ alarm_thread.pc = "top"
    /\ IF alarm = {}
       THEN /\ alarm_thread' = AlarmThread("waiting", NoDeadline, FALSE)
            /\ UNCHANGED <<alarm, posted>>
       ELSE \E operation \in alarm_top(alarm) :
               IF operation.kind # "null"
               THEN IF operation.wakeup <= now
                    THEN /\ posted' = Append(posted, [operation |-> operation, time |-> now])
                         /\ alarm' = alarm \ {operation}
                         /\ UNCHANGED alarm_thread
                    ELSE /\ alarm_thread' = AlarmThread("sleeping", operation.wakeup, FALSE)
                         /\ UNCHANGED <<alarm, posted>>
               ELSE /\ alarm_thread' = AlarmThread("done", NoDeadline, FALSE)
                    /\ UNCHANGED <<alarm, posted>>
    /\ UNCHANGED <<work_vars, locking, node_held, resubmitted, network, added, submitted, now, logging, store_blocks, unchecked,
          gap_blocks, arrival, blocks, stopped, idle, txn, runner, log, forks, observed,
          store_votes, elections, roots, io, background, confirmations, republished, bootstraps,
          peers, attempts, rep_crawler_active, sent, replies, peers_l, disconnects>>

\* alarm::run, return from condition.wait or wait_until after a notify or at
\* the deadline
AlarmWake ==
    /\ alarm_thread.pc \in {"waiting", "sleeping"}
    /\ alarm_thread.notified \/ (alarm_thread.pc = "sleeping" /\ alarm_thread.until <= now)
    /\ alarm_thread' = AlarmThread("top", NoDeadline, FALSE)
    /\ UNCHANGED <<work_vars, locking, node_held, posted, resubmitted, network, added, peer_vars, submitted, now, logging, store_blocks,
          unchecked, gap_blocks, arrival, blocks, stopped, idle, txn, runner, log, forks, observed,
          store_votes, elections, roots, io, background, confirmations, republished, bootstraps>>

\* alarm::run, spurious return from condition.wait or wait_until
AlarmSpuriousWake ==
    /\ alarm_thread.pc \in {"waiting", "sleeping"}
    /\ ~alarm_thread.notified
    /\ ~(alarm_thread.pc = "sleeping" /\ alarm_thread.until <= now)
    /\ alarm_thread' = AlarmThread("top", NoDeadline, FALSE)
    /\ UNCHANGED <<work_vars, locking, node_held, posted, resubmitted, network, added, peer_vars, submitted, now, logging, store_blocks,
          unchecked, gap_blocks, arrival, blocks, stopped, idle, txn, runner, log, forks, observed,
          store_votes, elections, roots, io, background, confirmations, republished, bootstraps>>

\* alarm::add of the operation o; it takes the mutex, which the alarm thread
\* holds except while it waits
alarm_add(o) ==
    /\ alarm_thread.pc \in {"waiting", "sleeping", "done"}
    /\ alarm' = alarm \cup {o}
    /\ alarm_thread' = IF alarm_thread.pc = "done" THEN alarm_thread
                       ELSE [alarm_thread EXCEPT !.notified = TRUE]
    /\ UNCHANGED <<work_vars, locking, node_held, posted, resubmitted, network, added, submitted, now, logging, store_blocks, unchecked,
          gap_blocks, arrival, blocks, stopped, idle, txn, runner, log, forks, observed,
          store_votes, elections, roots, io, background, confirmations, republished, bootstraps,
          peers, attempts, rep_crawler_active, sent, replies, peers_l, disconnects>>

\* alarm.add (now + d, function) by any caller; operations are numbered in
\* the order they are added
AlarmAdd(d) ==
    /\ OperationsAdded < MaxOperations
    /\ alarm_add(Operation(now + d, "operation", OperationsAdded))

\* alarm::~alarm: add (now, nullptr)
AlarmSentinel ==
    /\ ~SentinelAdded
    /\ alarm_add(Operation(now, "null", 0))

NextAlarm ==
    \/ Elapse(AlarmStep, MaxAlarmSteps * AlarmStep)
    \/ AlarmRun
    \/ AlarmWake
    \/ AlarmSpuriousWake
    \/ \E d \in AlarmDelays : AlarmAdd(d)
    \/ AlarmSentinel

SpecAlarm == InitArrival /\ [][NextAlarm]_vars

\* the alarm thread is scheduled, and a notified or timed-out wait returns
SpecAlarmFair == SpecAlarm /\ WF_vars(AlarmRun) /\ WF_vars(AlarmWake)

(***************************************************************************)
(* The receive loop of the network                                         *)
(***************************************************************************)
MaxCount == 2

MaxReceiveSteps == 3

ReceiveStep == 5

receive_retry == 5

\* how an asynchronous receive completes: with a socket error, or with a
\* datagram that is dispatched, comes from a reserved sender or the node
\* itself, does not parse, or carries insufficient work
Completions == {"socket_error", "dispatched", "reserved_sender", "parse_error", "insufficient_work"}

\* network::receive: socket.async_receive_from
network_receive(net) == [net EXCEPT !.receiving = @ + 1]

\* network::receive_action that starts the next receive after a socket error too
receive_action_restart(net, completion) ==
    LET error == completion = "socket_error"
        counted == CASE completion = "reserved_sender" -> [net EXCEPT !.bad_sender_count = @ + 1]
                     [] completion = "parse_error" -> [net EXCEPT !.error_count = @ + 1]
                     [] completion = "insufficient_work" -> [net EXCEPT !.insufficient_work_count = @ + 1]
                     [] OTHER -> net
    IN  IF ~error /\ net.on
        THEN [network |-> network_receive(counted), dispatch |-> completion = "dispatched", retry |-> FALSE]
        ELSE [network |-> network_receive(net), dispatch |-> FALSE, retry |-> net.on]

\* network::receive_action once the receive has completed: the network
\* afterwards, whether the datagram goes to the visitor, and whether
\* receive () is put on the alarm
receive_action(net, completion) ==
    LET error == completion = "socket_error"
        counted == CASE completion = "reserved_sender" -> [net EXCEPT !.bad_sender_count = @ + 1]
                     [] completion = "parse_error" -> [net EXCEPT !.error_count = @ + 1]
                     [] completion = "insufficient_work" -> [net EXCEPT !.insufficient_work_count = @ + 1]
                     [] OTHER -> net
    IN  IF ~error /\ net.on
        THEN [network |-> network_receive(counted), dispatch |-> completion = "dispatched", retry |-> FALSE]
        ELSE [network |-> net, dispatch |-> FALSE, retry |-> net.on]

\* node::start: network.receive ()
NodeStart ==
    /\ ~network.started
    /\ network' = network_receive([network EXCEPT !.started = TRUE])
    /\ UNCHANGED <<work_vars, locking, node_held, alarm_thread, posted, resubmitted, added, peer_vars, submitted, now, logging,
          store_blocks, unchecked, gap_blocks, arrival, blocks, stopped, idle, txn, runner, log, forks,
          observed, store_votes, elections, roots, io, background, confirmations, republished, bootstraps>>

\* the handler of async_receive_from: the outstanding receive completes and
\* receive_action runs; a dispatched datagram is a keepalive from sender
ReceiveAction(completion, sender, payload) ==
    /\ network.receiving > 0
    /\ network.bad_sender_count + network.insufficient_work_count + network.error_count < MaxCount
    /\ LET returned == [network EXCEPT !.receiving = @ - 1]
           action == receive_action(returned, completion)
       IN  /\ network' = action.network
           /\ IF action.dispatch
              THEN keepalive(sender, payload, GenesisHash)
              ELSE /\ alarm' = IF action.retry
                               THEN alarm \cup {Operation(now + receive_retry, "receive", 0)}
                               ELSE alarm
                   /\ UNCHANGED <<peers, rep_crawler_active, attempts, sent>>
    /\ UNCHANGED <<work_vars, locking, node_held, alarm_thread, posted, resubmitted, added, submitted, now, logging,
          store_blocks, unchecked, gap_blocks, arrival, blocks, stopped, idle, txn, runner, log, forks,
          observed, store_votes, elections, roots, io, background, confirmations, republished, bootstraps,
          replies, peers_l, disconnects>>

\* the operation receive_action put on the alarm runs when it is due: receive ()
ReceiveResume ==
    \E op \in alarm :
        /\ op.kind = "receive"
        /\ op.wakeup <= now
        /\ alarm' = alarm \ {op}
        /\ network' = network_receive(network)
        /\ UNCHANGED <<work_vars, locking, node_held, alarm_thread, posted, resubmitted, added, submitted, now, logging,
              store_blocks, unchecked, gap_blocks, arrival, blocks, stopped, idle, txn, runner, log, forks,
              observed, store_votes, elections, roots, io, background, confirmations, republished,
              bootstraps, peers, attempts, rep_crawler_active, sent, replies, peers_l, disconnects>>

\* network::stop; closing the socket completes the outstanding receive with an error
NetworkStop ==
    /\ network.on
    /\ network' = [network EXCEPT !.on = FALSE]
    /\ UNCHANGED <<work_vars, locking, node_held, alarm_thread, posted, resubmitted, added, peer_vars, submitted, now, logging,
          store_blocks, unchecked, gap_blocks, arrival, blocks, stopped, idle, txn, runner, log, forks,
          observed, store_votes, elections, roots, io, background, confirmations, republished, bootstraps>>

NextReceive ==
    \/ Elapse(ReceiveStep, MaxReceiveSteps * ReceiveStep)
    \/ NodeStart
    \/ \E completion \in Completions, sender \in Endpoints, payload \in KeepalivePayloads :
          ReceiveAction(completion, sender, payload)
    \/ ReceiveResume
    \/ NetworkStop

SpecReceive == InitArrival /\ [][NextReceive]_vars

(***************************************************************************)
(* announce_votes over many conflicts, without votes from the network      *)
(***************************************************************************)
MaxAnnounceRoots == 22

\* the k-th conflicting block, on a root of its own
AnnounceBlock(k) == Blk(100 + k, 1, TRUE)

\* the numbers of conflicts that arrive at once: two bursts make more than
\* announcements_per_interval
AnnounceBursts == {7, 10, 11}

RECURSIVE active_start(_, _)
\* active_transactions::start for the next n conflicting blocks, none of whose
\* roots has an election; acc carries roots, elections and the stored votes
active_start(n, acc) ==
    IF n = 0 THEN acc
    ELSE LET id == Len(acc.elections) + 1
             b == AnnounceBlock(id)
             new == election_new(b, now, acc.votes)
         IN  active_start(n - 1,
                [roots |-> Append(acc.roots, [root |-> root(b), election |-> id, announcements |-> 0]),
                 elections |-> Append(acc.elections, new.el),
                 votes |-> new.votes])

\* a batch of n conflicting blocks is observed and an election started for each
ActiveStart(n) ==
    /\ Len(elections) + n <= MaxAnnounceRoots
    /\ RootIndex(roots, root(AnnounceBlock(Len(elections) + 1))) = 0
    /\ LET out == active_start(n, [roots |-> roots, elections |-> elections, votes |-> store_votes])
       IN  /\ elections' = out.elections
           /\ store_votes' = out.votes
           /\ roots' = out.roots
    /\ UNCHANGED <<work_vars, service_vars, added, peer_vars, submitted, now, logging, store_blocks,
          unchecked, gap_blocks, arrival, blocks, stopped, idle, txn, runner, log, forks, observed,
          io, background, confirmations, republished, bootstraps>>

NextAnnounce ==
    \/ \E n \in AnnounceBursts : ActiveStart(n)
    \/ AnnounceVotes

SpecAnnounce == InitElection /\ [][NextAnnounce]_vars

\* ENABLED <<AnnounceVotes>>_vars: the tick has a root to announce and the
\* write transaction is free
AnnounceEnabled == txn = "none" /\ roots # <<>>

\* announce_votes puts itself on the alarm again at the end of every run: weak
\* fairness of the tick, WF_vars(AnnounceVotes) written out
SpecAnnounceFair == SpecAnnounce /\ ([]<>~AnnounceEnabled \/ []<><<AnnounceVotes>>_vars)

(***************************************************************************)
(* gap_cache called directly                                               *)
(***************************************************************************)
MaxGapSteps == 4

GapStep == 5

gap_cache_age == 10

GapInputs == {Blk(2, 1, TRUE), Blk(3, 1, TRUE), Blk(4, 1, TRUE)}

GapVoteInputs == {Vote("rA", 1, Blk(3, 1, TRUE), TRUE)}

\* gap_cache::add (block)
GapAdd(b) ==
    /\ gap_blocks' = gap_cache_add(gap_blocks, now, b)
    /\ UNCHANGED <<work_vars, service_vars, added, peer_vars, submitted, now, logging, store_blocks,
          unchecked, arrival, blocks, stopped, idle, txn, runner, log, forks, observed,
          store_votes, elections, roots, io, background, confirmations, republished, bootstraps>>

\* gap_cache::vote (vote): the bootstrap check is put on the alarm when the
\* votes for the block pass the threshold
GapVote(v) ==
    /\ LET gap == gap_cache_vote(gap_blocks, v)
       IN  /\ gap_blocks' = gap.gap
           /\ alarm' = IF gap.check
                       THEN alarm \cup {Operation(now + 5, "gap_bootstrap", v.block.hash)}
                       ELSE alarm
    /\ UNCHANGED <<work_vars, service_vars, added, submitted, now, logging, store_blocks,
          unchecked, arrival, blocks, stopped, idle, txn, runner, log, forks, observed,
          store_votes, elections, roots, io, background, confirmations, republished, bootstraps,
          peers, attempts, rep_crawler_active, sent, replies, peers_l, disconnects>>

RECURSIVE purge_old(_, _)
\* gap_cache::purge_old with cutoff c: the caches it can leave. Each round
\* takes the first entry of index 1, the index by hash, which can be any
\* entry, erases it when it arrived before c and stops otherwise
purge_old(gb, c) ==
    IF gb = <<>> THEN {gb}
    ELSE UNION {IF gb[i].arrival < c
                THEN purge_old(SelectSeqNot(gb, gb[i].hash), c)
                ELSE {gb} : i \in 1..Len(gb)}

\* gap_cache::purge_old ()
GapPurgeOld ==
    /\ gap_blocks' \in purge_old(gap_blocks, now - gap_cache_age)
    /\ UNCHANGED <<work_vars, service_vars, added, peer_vars, submitted, now, logging, store_blocks,
          unchecked, arrival, blocks, stopped, idle, txn, runner, log, forks, observed,
          store_votes, elections, roots, io, background, confirmations, republished, bootstraps>>

NextGap ==
    \/ Elapse(GapStep, MaxGapSteps * GapStep)
    \/ \E b \in GapInputs : GapAdd(b)
    \/ \E v \in GapVoteInputs : GapVote(v)
    \/ GapPurgeOld

SpecGap == InitArrival /\ [][NextGap]_vars

\* keepalives from peers, the clock and the periodic purge of the peer table
InitPeerTable ==
    /\ InitWith({[ledger_logging_value |-> FALSE, ledger_duplicate_logging_value |-> FALSE]})
    /\ InitWork({{}})
    /\ InitPeers({NoPeers, KnownPeers})

NextPeers ==
    \/ Elapse(period, MaxPeriods * period)
    \/ \E sender \in Endpoints, payload \in KeepalivePayloads : Keepalive(sender, payload, GenesisHash)
    \/ OngoingKeepalive

SpecPeers == InitPeerTable /\ [][NextPeers]_vars

(***************************************************************************)
(* The representative crawl and the timers of rep_query                    *)
(***************************************************************************)
MaxCrawlSteps == 6

CrawlStep == 1

\* peer_container::rep_crawl: the peers to query (at most 8; the table holds fewer)
rep_crawl(ps) == DOMAIN ps

\* rep_query: the block block_random returned is added to rep_crawler.active,
\* a confirm_req for it goes to every target, and an operation that removes
\* the hash is put on the alarm for rep_query_timeout later
rep_query(crawl, ops, out, targets, random, t) ==
    [active |-> crawl \cup {random},
     alarm |-> ops \cup {Operation(t + rep_query_timeout, "rep_crawler_remove", random)},
     sent |-> out \cup {Datagram("confirm_req", e) : e \in targets}]

\* node::ongoing_rep_crawl, called by node::start and then by its own alarm
\* operation every period while the network is on
OngoingRepCrawl(random) ==
    /\ block_exists(store_blocks, random)
    /\ LET scheduled == {op \in alarm : op.kind = "ongoing_rep_crawl"}
       IN  /\ scheduled # {} => \E op \in scheduled : op.wakeup <= now
           /\ LET queried == rep_query(rep_crawler_active, alarm \ scheduled, sent, rep_crawl(peers), random, now)
              IN  /\ rep_crawler_active' = queried.active
                  /\ sent' = queried.sent
                  /\ alarm' = IF network.on
                              THEN queried.alarm \cup {Operation(now + period, "ongoing_rep_crawl", 0)}
                              ELSE queried.alarm
    /\ UNCHANGED <<work_vars, service_vars, added, now, logging, store_blocks, unchecked, gap_blocks, arrival,
          blocks, stopped, idle, txn, runner, log, forks, observed,
          store_votes, elections, roots, io, background, confirmations, republished,
          bootstraps, submitted, peers, attempts, replies, peers_l, disconnects>>

\* the operation rep_query put on the alarm runs: rep_crawler.remove (hash)
RepCrawlerRemove ==
    \E op \in alarm :
        /\ op.kind = "rep_crawler_remove"
        /\ op.wakeup <= now
        /\ rep_crawler_active' = rep_crawler_active \ {op.hash}
        /\ alarm' = alarm \ {op}
        /\ UNCHANGED <<work_vars, service_vars, added, now, logging, store_blocks, unchecked, gap_blocks, arrival,
              blocks, stopped, idle, txn, runner, log, forks, observed,
              store_votes, elections, roots, io, background, confirmations, republished,
              bootstraps, submitted, peers, attempts, sent, replies, peers_l, disconnects>>

\* a removal that is due runs before the clock moves on
RemovalDue == \E op \in alarm : op.kind = "rep_crawler_remove" /\ op.wakeup <= now

NextCrawl ==
    \/ ~RemovalDue /\ Elapse(CrawlStep, MaxCrawlSteps * CrawlStep)
    \/ \E random \in AllHashes : OngoingRepCrawl(random)
    \/ \E sender \in Endpoints, payload \in KeepalivePayloads, random \in AllHashes :
          Keepalive(sender, payload, random)
    \/ RepCrawlerRemove

SpecCrawl == InitPeerTable /\ [][NextCrawl]_vars

\* the confirm_acks of representatives whose sequence numbers run far apart:
\* rB votes with sequence 30000 (on block 4, which is held in the gap cache
\* while block 2 is missing) and, 10001 and 10000 below it, 19999 and 20000
\* (on block 2); rA votes with a good and with a bad vote signature
StaleInputs ==
    {Vote("rB", 30000, Blk(4, 1, TRUE), TRUE), Vote("rB", 19999, Blk(2, 1, TRUE), TRUE),
     Vote("rB", 20000, Blk(2, 1, TRUE), TRUE),
     Vote("rA", 1, Blk(2, 1, TRUE), TRUE), Vote("rA", 1, Blk(4, 1, TRUE), FALSE)}

\* the blocks store.block_random returns: genesis or the block most votes are for
StaleHashes == {GenesisHash, 2}

\* confirm_acks from peers not heard from before, with the block processor
InitVotes ==
    /\ InitWith({[ledger_logging_value |-> FALSE, ledger_duplicate_logging_value |-> FALSE]})
    /\ InitWork({{}})
    /\ InitPeers({NoPeers})

NextVotes ==
    \/ ProcessBlocks
    \/ ProcessBlocksWake
    \/ \E r \in Runners : BatchBegin(r)
    \/ \E r \in Runners : ProcessItem(r)
    \/ \E r \in Runners : BatchEnd(r)
    \/ \E r \in Runners : Observe(r)
    \/ \E t \in IoThreads, v \in StaleInputs, kind \in {"vote", "vote2"},
          sender \in Endpoints, random \in StaleHashes :
          ConfirmAck(t, v, kind, sender, random)
    \/ \E t \in IoThreads : ElectionVoteTxn(t)

SpecVotes == InitVotes /\ [][NextVotes]_vars

\* blocks published by peers and the block processor, under every logging
\* configuration; no votes arrive
InitBlocks == InitWith(LoggingConfigs) /\ InitWork({{}}) /\ InitPeers({NoPeers})

NextBlocks ==
    \/ \E b \in Blocks : ProcessActive(b)
    \/ ProcessBlocks
    \/ ProcessBlocksWake
    \/ \E r \in Runners : BatchBegin(r)
    \/ \E r \in Runners : ProcessItem(r)
    \/ \E r \in Runners : BatchEnd(r)
    \/ \E r \in Runners : Observe(r)

SpecBlocks == InitBlocks /\ [][NextBlocks]_vars

(***************************************************************************)
(* Forks among published blocks that wait in the processor's queue         *)
(***************************************************************************)
MaxForkSteps == 1

ForkStep == 61

\* two blocks on the same root and a child of the first
ForkArrivalInputs == {Blk(2, 1, TRUE), Blk(3, 1, TRUE), Blk(4, 1, TRUE)}

NextForkArrival ==
    \/ \E b \in ForkArrivalInputs : ProcessActive(b)
    \/ Elapse(ForkStep, MaxForkSteps * ForkStep)
    \/ ProcessBlocks
    \/ ProcessBlocksWake
    \/ \E r \in Runners : BatchBegin(r)
    \/ \E r \in Runners : ProcessItem(r)
    \/ \E r \in Runners : BatchEnd(r)
    \/ \E r \in Runners : Observe(r)

SpecForkArrival == InitBlocks /\ [][NextForkArrival]_vars

\* the distributed work request alone, the rest of the node at rest
InitWorkRequest ==
    /\ InitWith({[ledger_logging_value |-> FALSE, ledger_duplicate_logging_value |-> FALSE]})
    /\ InitWork(WorkPeerConfigs)
    /\ InitPeers({NoPeers})

NextWork ==
    \/ GenerateWork
    \/ \E p \in WorkPeers, resp \in Responses : WorkResponse(p, resp)
    \/ \E p \in WorkPeers : WorkHandle(p)
    \/ \E p \in WorkPeers : WorkStop(p)
    \/ \E w \in WorkValues : WorkPoolComplete(w)

SpecWork == InitWorkRequest /\ [][NextWork]_vars

(***************************************************************************)
(* The timers of the node and what their callbacks capture                 *)
(***************************************************************************)
MaxTimerSteps == 2

TimerStep == 8

announce_interval == 16

backup_interval == 300

bootstrap_wakeups == {5, 300}

\* what the callback of an alarm operation captures: a weak_ptr to the node
\* that it locks when it runs, a shared_ptr to the node, or a plain pointer
Capture(kind) ==
    CASE kind \in {"ongoing_keepalive", "ongoing_rep_crawl", "ongoing_bootstrap",
                   "ongoing_store_flush", "rep_crawler_remove"} -> "weak"
      [] kind \in {"backup_wallet", "announce_votes", "gap_bootstrap"} -> "shared"
      [] kind = "receive" -> "plain"

\* the node object exists: the process or a pending callback holds a shared_ptr to it
NodeAlive == node_held \/ \E op \in alarm : Capture(op.kind) = "shared"

\* node::start: every periodic handler runs once and puts itself on the alarm
\* (ongoing_keepalive is on the alarm of the initial state already)
StartTimers ==
    /\ node_held
    /\ ~stopped
    /\ \A op \in alarm : op.kind # "announce_votes"
    /\ \E wakeup \in bootstrap_wakeups :
          alarm' = alarm \cup
             {Operation(now + wakeup, "ongoing_bootstrap", 0),
              Operation(now + 5, "ongoing_store_flush", 0),
              Operation(now + rep_query_timeout, "rep_crawler_remove", GenesisHash),
              Operation(now + period, "ongoing_rep_crawl", 0),
              Operation(now + backup_interval, "backup_wallet", 0),
              Operation(now + announce_interval, "announce_votes", 0)}
    /\ rep_crawler_active' = rep_crawler_active \cup {GenesisHash}
    /\ UNCHANGED <<work_vars, service_vars, added, now, logging, store_blocks, unchecked, gap_blocks, arrival,
          blocks, stopped, idle, txn, runner, log, forks, observed,
          store_votes, elections, roots, io, background, confirmations, republished,
          bootstraps, submitted, peers, attempts, sent, replies, peers_l, disconnects>>

\* the operations a callback puts on the alarm when it runs at time t
rescheduled(op, t, wakeup, on) ==
    CASE op.kind = "ongoing_keepalive" -> {Operation(t + period, "ongoing_keepalive", 0)}
      [] op.kind = "ongoing_rep_crawl" ->
            {Operation(t + rep_query_timeout, "rep_crawler_remove", GenesisHash)}
            \cup (IF on THEN {Operation(t + period, "ongoing_rep_crawl", 0)} ELSE {})
      [] op.kind = "ongoing_bootstrap" -> {Operation(t + wakeup, "ongoing_bootstrap", 0)}
      [] op.kind = "ongoing_store_flush" -> {Operation(t + 5, "ongoing_store_flush", 0)}
      [] op.kind = "backup_wallet" -> {Operation(t + backup_interval, "backup_wallet", 0)}
      [] op.kind = "announce_votes" -> {Operation(t + announce_interval, "announce_votes", 0)}
      [] OTHER -> {}

\* the earliest operation of the alarm is due and its callback runs: a callback with a
\* weak_ptr drops its task when the node is gone, the others run their handler
\* (a callback with a plain pointer to a node that is gone has undefined
\* behaviour: it may start a receive or not)
TimerRun ==
    \E op \in alarm_top(alarm) :
      \E wakeup \in IF op.kind = "ongoing_bootstrap" THEN bootstrap_wakeups ELSE {5} :
        /\ op.wakeup <= now
        /\ LET rest == alarm \ {op}
               alive == node_held \/ \E other \in alarm : Capture(other.kind) = "shared"
               runs == Capture(op.kind) = "weak" => alive
           IN  /\ alarm' = IF runs THEN rest \cup rescheduled(op, now, wakeup, network.on) ELSE rest
               /\ rep_crawler_active' =
                     CASE ~runs -> rep_crawler_active
                       [] op.kind = "rep_crawler_remove" -> rep_crawler_active \ {op.hash}
                       [] op.kind = "ongoing_rep_crawl" -> rep_crawler_active \cup {GenesisHash}
                       [] OTHER -> rep_crawler_active
               /\ network' \in
                     IF op.kind # "receive" THEN {network}
                     ELSE IF alive THEN {network_receive(network)}
                     ELSE {network, network_receive(network)}
               /\ bootstraps' = IF runs /\ op.kind \in {"ongoing_bootstrap", "gap_bootstrap"} /\ bootstraps < MaxBootstraps
                                THEN bootstraps + 1 ELSE bootstraps
        /\ UNCHANGED <<work_vars, locking, node_held, alarm_thread, posted, resubmitted, added, now, logging, store_blocks,
              unchecked, gap_blocks, arrival, blocks, stopped, idle, txn, runner, log, forks, observed,
              store_votes, elections, roots, io, background, confirmations, republished,
              submitted, peers, attempts, sent, replies, peers_l, disconnects>>

\* node::stop: the block processor is stopped and its thread joined, the
\* active roots are cleared and the network is switched off
NodeStop ==
    /\ ~stopped
    /\ runner["bp"].pc \in {"top", "waiting"}
    /\ blocks = <<>>
    /\ stopped' = TRUE
    /\ runner' = [runner EXCEPT !["bp"].pc = "done"]
    /\ roots' = <<>>
    /\ network' = [network EXCEPT !.on = FALSE]
    /\ UNCHANGED <<work_vars, locking, node_held, alarm_thread, posted, resubmitted, added, peer_vars, submitted, now,
          logging, store_blocks, unchecked, gap_blocks, arrival, blocks, idle, txn, log, forks, observed,
          store_votes, elections, io, background, confirmations, republished, bootstraps>>

\* the process drops its shared_ptr to the node after node::stop
NodeRelease ==
    /\ stopped
    /\ node_held
    /\ node_held' = FALSE
    /\ UNCHANGED <<work_vars, locking, alarm_thread, posted, resubmitted, network, added, peer_vars, submitted, now,
          logging, store_blocks, unchecked, gap_blocks, arrival, blocks, stopped, idle, txn, runner, log,
          forks, observed, store_votes, elections, roots, io, background, confirmations, republished,
          bootstraps>>

NextTimers ==
    \/ Elapse(TimerStep, MaxTimerSteps * TimerStep)
    \/ StartTimers
    \/ TimerRun
    \/ NodeStart
    \/ \E sender \in Endpoints, payload \in KeepalivePayloads :
          node_held /\ ReceiveAction("socket_error", sender, payload)
    \/ \E v \in GapVoteInputs : node_held /\ GapAdd(v.block)
    \/ \E v \in GapVoteInputs : node_held /\ GapVote(v)
    \/ NodeStop
    \/ NodeRelease

SpecTimers == InitArrival /\ [][NextTimers]_vars

(***************************************************************************)
(* The write transaction and the two mutexes, one step per acquire/release *)
(***************************************************************************)
Mutexes == {"active", "gap"}

LockOp(op, mutex, line) == [op |-> op, mutex |-> mutex, line |-> line]

\* raze::transaction (environment, nullptr, true) and the end of its scope
Write(line) == LockOp("write", "none", line)
Commit(line) == LockOp("commit", "none", line)
\* raze::transaction (environment, nullptr, false) and the end of its scope
Read(line) == LockOp("read", "none", line)
ReadEnd(line) == LockOp("read_end", "none", line)
\* std::lock_guard<std::mutex> and the end of its scope
Lock(mutex, line) == LockOp("lock", mutex, line)
Unlock(mutex, line) == LockOp("unlock", mutex, line)

\* block_processor::process_receive_many for one item: the batch's write transaction,
\* the gap cache touched under it (erase after progress/old, gap_cache::add after a gap),
\* and after the batch the block observer that starts an election for a recent block
process_receive_many_locks(gap, line, recent) ==
    <<Write(1166)>>
    \o (IF gap THEN <<Lock("gap", line), Unlock("gap", line)>> ELSE <<>>)
    \o <<Commit(1213)>>
    \o (IF recent
        THEN <<Write(1391), Lock("active", 2920), Unlock("active", 2929), Commit(1393)>>
        ELSE <<>>)

\* active_transactions::announce_votes: the write transaction, then the mutex,
\* both held to the end; broadcast_winner and the confirmation are posted
announce_votes_locks ==
    <<Write(2859), Lock("active", 2860), Unlock("active", 2910), Commit(2910)>>

\* election::vote under the mutex of active_transactions::vote
active_vote_locks_held(found) ==
    <<Lock("active", 2936)>>
    \o (IF found THEN <<Write(2850), Commit(2854)>> ELSE <<>>)
    \o <<Unlock("active", 2943)>>

\* active_transactions::vote: the election is looked up under the mutex, and
\* election::vote opens its write transaction after the mutex was released
active_vote_locks(found) ==
    <<Lock("active", 2936), Unlock("active", 2943)>>
    \o (IF found THEN <<Write(2850), Commit(2854)>> ELSE <<>>)

\* gap_cache::vote: a read transaction, then the mutex
gap_cache_vote_locks ==
    <<Read(1623), Lock("gap", 1624), Unlock("gap", 1647), ReadEnd(1647)>>

\* the vote observers of the node, in the order they were added
vote_observers_locks(active_vote, found) ==
    (IF active_vote THEN active_vote_locks(found) ELSE <<>>) \o gap_cache_vote_locks

\* election::broadcast_winner: the write transaction is closed before the read one opens
broadcast_winner_locks ==
    <<Write(2763), Commit(2765), Read(2766), ReadEnd(2768)>>

\* where process_receive_one takes gap_cache.mutex: lines 1203, and 1603 from 1250/1260
GapLockLines == {1203, 1603}

BatchPaths ==
    {process_receive_many_locks(gap, line, recent) :
        gap \in BOOLEAN, line \in GapLockLines, recent \in BOOLEAN}

\* the block processor's thread runs batches; an io_service thread runs the alarm's
\* operations, the posted operations (a forced batch among them) and the vote observers
LockPaths(t) ==
    IF t = "bp"
    THEN BatchPaths
    ELSE BatchPaths
         \cup {announce_votes_locks, broadcast_winner_locks}
         \cup {vote_observers_locks(active_vote, found) : active_vote \in BOOLEAN, found \in BOOLEAN}

MutexHolders(mutex) == {t \in LockThreads : mutex \in locking[t].held}

InPath(t) == locking[t].pc \in 1..Len(locking[t].path)

NextOp(t) == locking[t].path[locking[t].pc]

\* the thread's next step is an acquisition that cannot be granted now
Blocked(t) ==
    /\ InPath(t)
    /\ \/ NextOp(t).op = "write" /\ txn # "none"
       \/ NextOp(t).op = "lock" /\ MutexHolders(NextOp(t).mutex) # {}

\* the thread, outside a path or at the end of one, enters the next
LockCall(t, path) ==
    /\ ~InPath(t)
    /\ locking' = [locking EXCEPT ![t] = [path |-> path, pc |-> 1, held |-> {}]]
    /\ UNCHANGED <<work_vars, peer_vars, alarm_thread, posted, resubmitted, network, node_held,
          added, submitted, now, logging, store_blocks, unchecked, gap_blocks, arrival,
          blocks, stopped, idle, txn, runner, log, forks, observed, store_votes, elections, roots, io,
          background, confirmations, republished, bootstraps>>

Advance(t, held) == [locking EXCEPT ![t].pc = @ + 1, ![t].held = held]

LockStep(t) ==
    /\ InPath(t)
    /\ ~Blocked(t)
    /\ LET o == NextOp(t)
           mine == locking[t].held
       IN  /\ locking' = Advance(t, CASE o.op = "lock" -> mine \cup {o.mutex}
                                      [] o.op = "unlock" -> mine \ {o.mutex}
                                      [] OTHER -> mine)
           /\ txn' = CASE o.op = "write" -> t
                       [] o.op = "commit" -> "none"
                       [] OTHER -> txn
    /\ UNCHANGED <<work_vars, peer_vars, alarm_thread, posted, resubmitted, network, node_held,
          added, submitted, now, logging, store_blocks, unchecked, gap_blocks, arrival,
          blocks, stopped, idle, runner, log, forks, observed, store_votes, elections, roots, io,
          background, confirmations, republished, bootstraps>>

NextLocks ==
    \/ \E t \in LockThreads : \E path \in LockPaths(t) : LockCall(t, path)
    \/ \E t \in LockThreads : LockStep(t)

SpecLocks == InitArrival /\ [][NextLocks]_vars

(***************************************************************************)
(* Properties of elections                                                 *)
(***************************************************************************)
ElectionIds == DOMAIN elections

\* the operations of one type that election e has posted and that are still to run
Pending(bg, e, type) == {task \in BagToSet(bg) : task.election = e /\ task.type = type}

RECURSIVE CopiesOf(_, _)
CopiesOf(bg, tasks) ==
    IF tasks = {} THEN 0
    ELSE LET task == CHOOSE x \in tasks : TRUE
         IN  CopiesIn(task, bg) + CopiesOf(bg, tasks \ {task})

\* confirmation dispatches of election e: those waiting on the executor and those already run
ConfirmDispatches(e) ==
    CopiesOf(background, Pending(background, e, "confirmed"))
    + Cardinality({i \in DOMAIN confirmations : confirmations[i].election = e})

\* an io thread finishes election::vote on election e in this step
VoteDelivered(e) == \E t \in IoThreads : io[t].pc = "txn" /\ io[t].election = e /\ io'[t].pc = "idle"

\* the guarded body of confirm_once runs on election e in this step
ConfirmBodyRuns(e) == ~elections[e].confirmed /\ elections'[e].confirmed

TopWeight(el) == tally_winner(el.rep_votes).first

TopBlock(el) == tally_winner(el.rep_votes).second

InitialBlock(el) == el.rep_votes[NotAnAccount].block

Erased(e) == \A i \in DOMAIN roots : roots[i].election # e

\* C1: the guarded body of confirm_once runs at most once per election: an
\* election never has more than one confirmation dispatch, has none before it is
\* confirmed, and once confirmed no step clears the flag, changes last_winner or
\* posts a further forced submission or confirmation for it.
C1_ConfirmOnceAtMostOnce ==
    /\ [](\A e \in ElectionIds :
            /\ ConfirmDispatches(e) <= 1
            /\ elections[e].confirmed <=> ConfirmDispatches(e) = 1)
    /\ [][\A e \in ElectionIds :
            elections[e].confirmed =>
                /\ elections'[e].confirmed
                /\ elections'[e].last_winner = elections[e].last_winner
                /\ \A type \in {"confirmed", "process_receive_many"} :
                     \A task \in Pending(background', e, type) :
                        CopiesIn(task, background') <= CopiesIn(task, background)]_vars

\* C1 witness: remote representatives holding a quorum voted for one block (so
\* election::vote called confirm_once) and the cutoff has erased the root (so
\* announce_votes called confirm_once as well), with one confirmation delivered.
C1_Witness ==
    \E e \in ElectionIds :
        /\ elections[e].confirmed
        /\ Erased(e)
        /\ \A a \in Reps : elections[e].rep_votes[a] # NoVote
        /\ \A a, b \in Reps : elections[e].rep_votes[a].block = elections[e].rep_votes[b].block
        /\ SumWeights(Reps) > Supply \div 2
        /\ ConfirmDispatches(e) = 1
        /\ Pending(background, e, "confirmed") = {}

\* C3 (as claimed): right after election::vote has recorded and tallied a vote,
\* last_winner is the block leading the tally.
C3_WinnerIsTallyTop ==
    [][\A e \in ElectionIds :
          VoteDelivered(e) => elections'[e].last_winner = TopBlock(elections'[e])]_vars

\* C3 (amended): election::vote leaves last_winner alone unless it runs the body
\* of confirm_once, and then last_winner is the block leading the tally; before
\* confirmation last_winner is the block the election was started with.
C3_WinnerFollowsTallyOnConfirm ==
    /\ [](\A e \in ElectionIds :
            ~elections[e].confirmed => elections[e].last_winner = InitialBlock(elections[e]))
    /\ [][\A e \in ElectionIds :
            VoteDelivered(e) =>
                IF ConfirmBodyRuns(e)
                THEN elections'[e].last_winner = TopBlock(elections'[e])
                ELSE elections'[e].last_winner = elections[e].last_winner]_vars

\* C3 witness: an unconfirmed election whose tally is led by another block than last_winner
C3_Witness ==
    \E e \in ElectionIds :
        /\ ~elections[e].confirmed
        /\ elections[e].rep_votes["rB"] # NoVote
        /\ TopBlock(elections[e]) # elections[e].last_winner

\* C4: every vote in an election's vote map is for a block of the election's
\* root, carries a valid signature and was accepted by the vote store (its
\* sequence number is not above the one the store holds for the account).
C4_VotesValidatedForRoot ==
    \A e \in ElectionIds :
        \A a \in Voted(elections[e].rep_votes) :
            LET v == elections[e].rep_votes[a]
            IN  /\ root(v.block) = elections[e].root
                /\ a # NotAnAccount =>
                     /\ v.account = a
                     /\ v.sig
                     /\ v.sequence >= 1
                     /\ v.sequence <= store_votes[a].sequence

\* C4 witness: an election holding a vote routed from the network and a vote
\* generated for the wallet's representative
C4_Witness ==
    \E e \in ElectionIds :
        /\ elections[e].rep_votes["rA"] # NoVote
        /\ elections[e].rep_votes["rL"] # NoVote

\* C5: election::vote confirms the election exactly when the tally it computes
\* after recording the vote is led with more than supply/2.
C5_ConfirmIffQuorum ==
    [][\A e \in ElectionIds :
          VoteDelivered(e) =>
              (elections'[e].confirmed <=>
                  (elections[e].confirmed \/ TopWeight(elections'[e]) > Supply \div 2))]_vars

\* C5 witness: an election confirmed by a vote (its root has not been cut off)
\* whose leading block holds more than supply/2
C5_Witness ==
    \E e \in ElectionIds :
        /\ elections[e].confirmed
        /\ ~Erased(e)
        /\ TopWeight(elections[e]) > Supply \div 2

\* C6: when the body of confirm_once runs, last_winner becomes the leading
\* block and that block is posted once as a forced submission exactly when it
\* differs from last_winner and leads with more than supply/16; otherwise
\* last_winner stays and no forced submission is posted.  No other step
\* changes last_winner.
C6_ReplaceIffAboveMinimum ==
    [][\A e \in ElectionIds :
          IF ConfirmBodyRuns(e)
          THEN LET top == TopBlock(elections'[e])
                   forced == Task("process_receive_many", top, e, TRUE)
               IN  IF top # elections[e].last_winner /\ TopWeight(elections'[e]) > Supply \div 16
                   THEN /\ elections'[e].last_winner = top
                        /\ CopiesIn(forced, background') = CopiesIn(forced, background) + 1
                        /\ \A task \in Pending(background', e, "process_receive_many") \ {forced} :
                              CopiesIn(task, background') <= CopiesIn(task, background)
                   ELSE /\ elections'[e].last_winner = elections[e].last_winner
                        /\ \A task \in Pending(background', e, "process_receive_many") :
                              CopiesIn(task, background') <= CopiesIn(task, background)
          ELSE elections'[e].last_winner = elections[e].last_winner]_vars

\* C6 witness: a confirmed election whose winner was replaced, the forced
\* submission of the new winner waiting on the executor
C6_Witness ==
    \E e \in ElectionIds :
        /\ elections[e].confirmed
        /\ elections[e].last_winner # InitialBlock(elections[e])
        /\ BagIn(Task("process_receive_many", elections[e].last_winner, e, TRUE), background)

\* a confirmed election that kept its winner although another block led the
\* tally with no more than supply/16
C6_RetainedWitness ==
    \E e \in ElectionIds :
        /\ elections[e].confirmed
        /\ TopBlock(elections[e]) # elections[e].last_winner
        /\ TopWeight(elections[e]) = Supply \div 16

(***************************************************************************)
(* Properties of distributed work                                          *)
(***************************************************************************)
\* the handler of p's connection has been entered (p responded or failed)
Responded(p) == connection[p].pc \in {"handling", "stop", "done"}

ReturnedValid(p) == Responded(p) /\ ValidWork(connection[p].response)

Waiting == {p \in work_peers : connection[p].pc = "waiting"}

\* every contacted peer has responded or failed and been handled, and the
\* local pool is not working
WorkQuiescent ==
    /\ work_request = "started"
    /\ \A p \in work_peers : connection[p].pc = "done"
    /\ work_pool # "generating"

StopRuns(p) == connection[p].pc = "stop" /\ connection'[p].pc = "done"

\* C7: the caller's callback is invoked at most once, with work that validates
\* for the root; and once every contacted peer has responded or failed and the
\* local pool has completed, it has been invoked exactly once.
C7_CallbackExactlyOnce ==
    /\ Len(work_callbacks) <= 1
    /\ \A i \in DOMAIN work_callbacks : ~work_validate(work_callbacks[i].work)
    /\ WorkQuiescent => Len(work_callbacks) = 1

\* C7 witness: two peers returned different valid work, every handler has
\* finished, and the callback ran once
C7_Witness ==
    /\ WorkQuiescent
    /\ \E p, q \in work_peers :
          /\ ReturnedValid(p) /\ ReturnedValid(q)
          /\ connection[p].response.work # connection[q].response.work
    /\ Len(work_callbacks) = 1

\* C8 (as claimed): the local pool is started only when the peer list is empty
\* or every peer has failed or returned invalid work, never when some peer
\* returned valid work; and it is started once all peers have failed.
C8_LocalPoolIffNoValidWork ==
    /\ work_pool # "idle" => \A p \in work_peers : Responded(p) /\ ~ReturnedValid(p)
    /\ (work_request = "started"
          /\ \A p \in work_peers : connection[p].pc = "done" /\ ~ReturnedValid(p))
       => work_pool # "idle"

\* C9 (as claimed): once the handler of the only valid response so far has
\* finished, every other configured peer has been sent a work_cancel, those
\* that answered before it included; no work_cancel precedes a valid response.
C9_CancelEveryOtherPeer ==
    /\ \A p \in work_peers :
          (/\ connection[p].pc = "done"
           /\ ReturnedValid(p)
           /\ \A q \in work_peers \ {p} : ~ReturnedValid(q))
          => work_peers \ {p} \subseteq work_cancels
    /\ work_cancels # {} => \E p \in work_peers : ReturnedValid(p)

\* C9 (amended): work_cancel requests are posted only by stop () in the handler
\* of a valid response, and then for exactly the peers that have not responded
\* or failed yet; a peer that has answered is never sent one, and none is
\* posted before a valid response.
C9_CancelOutstandingOnValid ==
    /\ [](work_cancels # {} => \E p \in work_peers : ReturnedValid(p))
    /\ [][/\ \A p \in work_peers :
               StopRuns(p) =>
                   /\ ValidWork(connection[p].response)
                   /\ work_cancels' = work_cancels \cup Waiting
                   /\ outstanding' = {}
          /\ work_cancels' # work_cancels => \E p \in work_peers : StopRuns(p)
          /\ \A q \in work_cancels' \ work_cancels : ~Responded(q)]_vars

\* C9 witness: a peer that answered with invalid work before the valid
\* response was left without a work_cancel while a peer still working got one
C9_Witness ==
    \E p, q, r \in work_peers :
        /\ connection[p].pc = "done"
        /\ connection[p].response.kind = "work"
        /\ ~ValidWork(connection[p].response)
        /\ connection[q].pc = "done"
        /\ ReturnedValid(q)
        /\ p \notin work_cancels
        /\ r \in work_cancels

(***************************************************************************)
(* Properties of the block processor                                       *)
(***************************************************************************)
\* nothing queued and the processor thread between batches
Drained == blocks = <<>> /\ runner["bp"].pc \in {"top", "waiting", "done"}

RejectionCodes == {"old", "gap_previous", "gap_source", "fork", "bad_signature"}

\* the ledger holds a block of b's root with at least b's work and a valid signature
LedgerHolds(b) ==
    \E h \in BlockHashes :
        /\ block_exists(store_blocks, h)
        /\ previous(h) = root(b)
        /\ work_value(block_get(store_blocks, h)) >= work_value(b)
        /\ ~validate_message(block_get(store_blocks, h))

\* b waits in unchecked under the dependency it misses
InUnchecked(b) == \E h \in AllHashes : b \in unchecked[h]

RejectionLogged(b) == \E code \in RejectionCodes : Line(code, b.hash) \in log

\* the ledger as it stands does not take b: its root is taken by another block,
\* its signature is bad, or it is a copy with a bad signature of a stored block
LedgerRejects(b) ==
    LET code == ledger_process(store_blocks, b).code
    IN  \/ code \in {"fork", "bad_signature"}
        \/ code = "old" /\ validate_message(b)

\* whether the configuration prints the result of processing b
LogsResult(b) ==
    IF ledger_process(store_blocks, b).code = "old"
    THEN logging.ledger_logging_value /\ logging.ledger_duplicate_logging_value
    ELSE logging.ledger_logging_value

ItemStep(r) ==
    /\ runner[r].pc \in {"begun", "batch"}
    /\ runner'[r].pc = "batch"
    /\ runner'[r].queue # runner[r].queue

\* C10: when the block handled has hash H and the result is progress or old
\* (H is in the ledger afterwards), every block under unchecked(H) leaves
\* unchecked and stands in the batch queue ahead of the blocks that were
\* waiting; for any other result unchecked(H) is left as it was and nothing is
\* pushed.
C10_ChildrenUnwoundToFront ==
    [][\A r \in Runners :
          ItemStep(r) =>
              LET H == Head(runner[r].queue).block.hash
                  waiting == Tail(runner[r].queue)
                  children == unchecked[H]
                  queue_l == runner'[r].queue
                  n == Len(queue_l) - Len(waiting)
              IN  IF block_exists(store_blocks', H)
                  THEN /\ unchecked'[H] = {}
                       /\ \A k \in AllHashes \ {H} : unchecked'[k] = unchecked[k]
                       /\ n = Cardinality(children)
                       /\ {queue_l[i] : i \in 1..n} = {Item(c, FALSE) : c \in children}
                       /\ SubSeq(queue_l, n + 1, Len(queue_l)) = waiting
                  ELSE /\ unchecked'[H] = unchecked[H]
                       /\ queue_l = waiting]_vars

\* C10 witness: block 2 was accepted while blocks 4 and 5 waited under
\* unchecked(2) and another block waited in the batch; 5 and 4 now stand first
C10_Witness ==
    \E r \in Runners :
        /\ runner[r].pc = "batch"
        /\ Len(runner[r].queue) = 3
        /\ runner[r].queue[1].block.hash = 5
        /\ runner[r].queue[2].block.hash = 4
        /\ previous(runner[r].queue[3].block.hash) = GenesisHash
        /\ block_exists(store_blocks, 2)
        /\ unchecked[2] = {}

\* no runner has a batch in hand and nothing is queued
Quiet == Drained /\ runner["bg"].pc = "idle"

\* positions in the observer calls of block_accepted for hash h
AcceptedAt(h) == {i \in DOMAIN observed : observed[i].type = "blocks" /\ observed[i].hash = h}

\* hash h was processed with gap_previous and its predecessor later with progress
FilledGap(h) ==
    /\ Line("gap_previous", h) \in log
    /\ Line("progress", previous(h)) \in log

\* C11 (as claimed): with result logging on and the processor quiet, every block
\* that was processed with gap_previous and whose predecessor was then processed
\* with progress has left unchecked, is in the ledger, and block_accepted was
\* emitted for the predecessor and then for it.
C11_GapChildAccepted ==
    (logging.ledger_logging_value /\ Quiet) =>
        \A h \in BlockHashes :
            FilledGap(h) =>
                /\ \A k \in AllHashes : \A b \in unchecked[k] : b.hash # h
                /\ block_exists(store_blocks, h)
                /\ \E i \in AcceptedAt(previous(h)) : \E j \in AcceptedAt(h) : i < j

\* C11 (amended): such a block has left unchecked(predecessor) and was processed
\* again; it is in the ledger exactly when that second processing gave progress,
\* and then block_accepted was emitted for the predecessor before it; with
\* another result (a missing source, a fork, a bad signature) it is not accepted.
C11_GapChildReprocessed ==
    (logging.ledger_logging_value /\ Quiet) =>
        \A h \in BlockHashes :
            FilledGap(h) =>
                /\ \A b \in unchecked[previous(h)] : b.hash # h
                /\ \E code \in {"progress", "gap_source", "fork", "bad_signature", "old"} :
                      Line(code, h) \in log
                /\ block_exists(store_blocks, h) <=> Line("progress", h) \in log
                /\ block_exists(store_blocks, h) =>
                      /\ AcceptedAt(h) # {}
                      /\ \A j \in AcceptedAt(h) : \E i \in AcceptedAt(previous(h)) : i < j
                /\ ~block_exists(store_blocks, h) => AcceptedAt(h) = {}

\* C11 witness: blocks 4 and 5 waited for block 2; after block 2 was accepted
\* block 4 was accepted behind it and block 5 went back to unchecked for its source
C11_Witness ==
    /\ logging.ledger_logging_value /\ Quiet
    /\ FilledGap(4) /\ FilledGap(5)
    /\ block_exists(store_blocks, 4)
    /\ \E i \in AcceptedAt(2) : \E j \in AcceptedAt(4) : i < j
    /\ ~block_exists(store_blocks, 5)
    /\ Blk(5, 1, TRUE) \in unchecked[MissingSource]

\* C13: when the block handled is already stored (the ledger returns old), the
\* stored block becomes the submitted one, with the successor it had, exactly
\* when the submitted block has strictly more work and a valid signature;
\* otherwise the stored block stays as it was; no other stored block changes.
C13_OldReplacedIffBetterWork ==
    [][\A r \in Runners :
          ItemStep(r) =>
              LET b == Head(runner[r].queue).block
                  H == b.hash
                  existing == block_get(store_blocks, H)
              IN  block_exists(store_blocks, H) =>
                      /\ store_blocks'[H] =
                            IF work_value(b) > work_value(existing) /\ ~validate_message(b)
                            THEN Stored(b, store_blocks[H].successor)
                            ELSE store_blocks[H]
                      /\ \A k \in AllHashes \ {H} : store_blocks'[k] = store_blocks[k]]_vars

\* C13 witness: block 2 was replaced by its copy with more work and kept block 4
\* as successor, while the copy with more work and a bad signature, submitted
\* as well, did not replace it
C13_Witness ==
    /\ Drained
    /\ Line("replacing", 2) \in log
    /\ store_blocks[2] = Stored(Blk(2, 2, TRUE), 4)
    /\ {Blk(2, 1, TRUE), Blk(2, 2, FALSE)} \subseteq submitted

\* C12 (as claimed): when the item handled is forced and the successor of its
\* root exists with another hash2, that successor is rolled back and afterwards
\* the item's block is the successor of its root; in every other case (not
\* forced, no successor, same hash2) no stored block is removed.
C12_ForcedRollbackInstallsBlock ==
    [][\A r \in Runners :
          ItemStep(r) =>
              LET item == Head(runner[r].queue)
                  b == item.block
                  successor == ledger_successor(store_blocks, root(b))
              IN  IF /\ item.force
                     /\ successor # NoBlock
                     /\ hash2_calc(successor) # hash2_calc(b)
                  THEN /\ ~block_exists(store_blocks', successor.hash)
                       /\ block_successor(store_blocks', root(b)) = b.hash
                  ELSE \A h \in AllHashes :
                          block_exists(store_blocks, h) => block_exists(store_blocks', h)]_vars

\* the votes republish_vote has fanned out
Republishes == BagToSet(republished)

FarBehind(v) ==
    /\ v.sig
    /\ store_votes[v.account].sequence >= v.sequence
    /\ store_votes[v.account].sequence - v.sequence > 10000

\* the step queues the block a confirm_ack with the vote v brings
Handled(v) ==
    /\ Len(blocks') = Len(blocks) + 1
    /\ blocks'[Len(blocks')].block = v.block

\* C15: a confirm_ack whose vote is a replay more than 10000 sequence numbers
\* behind the stored vote of its account is answered with exactly one
\* confirm_ack, carrying the stored vote, to the sender; any other confirm_ack
\* (a new vote, an invalid one, a replay at most 10000 behind) is not answered
C15_StaleVoteAnsweredWithStoredVote ==
    [][\A t \in IoThreads, v \in StaleInputs, kind \in {"vote", "vote2"},
          sender \in Endpoints, random \in StaleHashes :
          Handled(v) /\ ConfirmAck(t, v, kind, sender, random) =>
              replies' = IF FarBehind(v)
                         THEN replies (+) SetToBag({Reply(store_votes[v.account], sender, now)})
                         ELSE replies]_vars

\* one reply was sent, with the stored vote of sequence 30000, and the votes of
\* both representatives are stored
C15_Witness ==
    /\ BagCardinality(replies) = 1
    /\ \E r \in BagToSet(replies) : r.vote.sequence = 30000 /\ r.vote.account = "rB"
    /\ store_votes["rA"].sequence = 1
    /\ store_votes["rB"].sequence = 30000

\* a confirm_ack was already sent in reply to a stale vote during this second
RepliedThisSecond == \E r \in BagToSet(replies) : r.time = now

\* C16, as claimed: once a stale confirm_ack has been answered, no further
\* reply is sent for the stale confirm_acks received within the same second
C16_NoFurtherReplyInSameSecond ==
    [][RepliedThisSecond /\ now' = now => replies' = replies]_vars

\* C16, amended: a stale confirm_ack (its vote a replay more than 10000 behind
\* the stored vote) received in a second in which a reply was already sent is
\* answered as well, with one more confirm_ack carrying the stored vote to its
\* sender: the replies are not limited per second
C16_EveryStaleVoteAnswered ==
    [][\A t \in IoThreads, v \in StaleInputs, kind \in {"vote", "vote2"},
          sender \in Endpoints, random \in StaleHashes :
          (/\ RepliedThisSecond
           /\ FarBehind(v)
           /\ Handled(v)
           /\ ConfirmAck(t, v, kind, sender, random)) =>
              LET reply == Reply(store_votes[v.account], sender, now)
              IN  /\ BagCardinality(replies') = BagCardinality(replies) + 1
                  /\ CopiesIn(reply, replies') = CopiesIn(reply, replies) + 1]_vars

\* two replies were sent during one second
C16_Witness ==
    /\ BagCardinality(replies) = 2
    /\ \A r \in BagToSet(replies) : r.time = now /\ r.vote.sequence = 30000

\* the representative weight the peer table holds for endpoint e
RepWeight(ps, e) == IF ps[e] = NoPeer THEN 0 ELSE ps[e].rep_weight

\* the votes the gap cache holds for the block of hash h
GapVotes(gb, h) == {gb[i].votes : i \in {j \in 1..Len(gb) : gb[j].hash = h}}

\* gap_bootstrap operations waiting on the alarm
GapChecks(ops) == {op \in ops : op.kind = "gap_bootstrap"}

\* C17: a confirm_ack whose vote validates as replay or invalid is not handed
\* to the vote observers: no election, no vote waiting for an election, no
\* republished vote, no gap cache entry, no gap bootstrap check and no peer's
\* rep_weight changes. One that validates as vote or vote2 is handed to them
\* once: the gap cache entry of its block records it, it is routed to the
\* election of its root (unless the sender understands vote2 and the code is
\* vote) and at most one copy is republished, and the sender's rep_weight
\* covers the voter's weight when the rep crawler asks about the block
C17_OnlyAcceptedVotesObserved ==
    [][\A t \in IoThreads, v \in StaleInputs, kind \in {"vote", "vote2"},
          sender \in Endpoints, random \in StaleHashes :
          Handled(v) /\ ConfirmAck(t, v, kind, sender, random) =>
              IF vote_validate(store_votes, v).code \in {"replay", "invalid"}
              THEN /\ elections' = elections
                   /\ io' = io
                   /\ republished' = republished
                   /\ gap_blocks' = gap_blocks
                   /\ GapChecks(alarm') = GapChecks(alarm)
                   /\ \A e \in Endpoints : RepWeight(peers', e) = RepWeight(peers, e)
              ELSE /\ \A rv \in GapVotes(gap_blocks', v.block.hash) : rv[v.account] = v
                   /\ (RootIndex(roots, root(v.block)) # 0
                         /\ (version_using(sender) < 6 \/ kind = "vote2"))
                      => io'[t].pc = "txn" /\ io'[t].vote = v
                   /\ BagCardinality(republished') <= BagCardinality(republished) + 1
                   /\ v.block.hash \in rep_crawler_active'
                      => RepWeight(peers', sender) >= weight(v.account)]_vars

\* a stale vote of rB was answered while the gap cache holds block 4 with the
\* vote of rB the store holds
C17_Witness ==
    /\ replies # EmptyBag
    /\ GapVotes(gap_blocks, 4) # {}
    /\ \A rv \in GapVotes(gap_blocks, 4) : rv["rB"] = store_votes["rB"]
    /\ store_votes["rB"].sequence = 30000

\* the step handles a confirm_ack of sender whose vote v is accepted for a
\* block the rep crawler asks about when the vote observers run
CrawledVote(t, v, kind, sender, random) ==
    /\ Handled(v)
    /\ vote_validate(store_votes, v).code = "vote"
    /\ ConfirmAck(t, v, kind, sender, random)
    /\ v.block.hash \in rep_crawler_active'

\* C18, as claimed: after a vote accepted from a peer for a block in the rep
\* crawler's active set, the peer's rep_weight equals the weight of the
\* voting account, whatever it was before
C18_RepWeightEqualsVoterWeight ==
    [][\A t \in IoThreads, v \in StaleInputs, kind \in {"vote", "vote2"},
          sender \in Endpoints, random \in StaleHashes :
          CrawledVote(t, v, kind, sender, random) =>
              RepWeight(peers', sender) = weight(v.account)]_vars

\* C18, amended: after a vote accepted from a peer for a block in the rep
\* crawler's active set, the peer's rep_weight is the larger of the weight it
\* had and the weight of the voting account: it is raised, never lowered
C18_RepWeightRaisedToVoterWeight ==
    [][\A t \in IoThreads, v \in StaleInputs, kind \in {"vote", "vote2"},
          sender \in Endpoints, random \in StaleHashes :
          CrawledVote(t, v, kind, sender, random) =>
              LET before == RepWeight(peers, sender)
                  w == weight(v.account)
              IN  RepWeight(peers', sender) = IF before < w THEN w ELSE before]_vars

\* rA's vote for block 2, which the rep crawler asks about, has just been
\* accepted from p1, a peer recorded with rB's larger weight (had p2 sent
\* it, p2 would be recorded with a weight)
C18_Witness ==
    /\ 2 \in rep_crawler_active
    /\ io["io1"].pc = "txn"
    /\ io["io1"].vote = Vote("rA", 1, Blk(2, 1, TRUE), TRUE)
    /\ RepWeight(peers, "p1") = weight("rB")
    /\ peers["p2"] # NoPeer
    /\ RepWeight(peers, "p2") = 0

\* C19: a purge (purge_list with cutoff now - 5 min, run by ongoing_keepalive)
\* removes every peer last heard from before the cutoff and keeps every peer
\* heard from at the cutoff or later, with its last_contact; no peer silent
\* for more than 5 minutes is in the table after it
C19_PurgeEvictsExactlySilentPeers ==
    [][OngoingKeepalive =>
          /\ \A e \in Endpoints :
                /\ (peers[e] # NoPeer /\ peers[e].last_contact < now - 300) => peers'[e] = NoPeer
                /\ (peers[e] # NoPeer /\ peers[e].last_contact >= now - 300)
                     => peers'[e] # NoPeer /\ peers'[e].last_contact = peers[e].last_contact
                /\ peers[e] = NoPeer => peers'[e] = NoPeer
          /\ \A e \in Endpoints : peers'[e] # NoPeer => now - peers'[e].last_contact <= 300]_vars

\* a purge has just run 5 minutes after p2 was last heard from: p2 is in the
\* table and in the list returned, and p1, found earlier and asked for its
\* representative, is not
C19_Witness ==
    /\ Operation(now + period, "ongoing_keepalive", 0) \in alarm
    /\ peers["p2"] # NoPeer
    /\ peers["p2"].last_contact = now - 300
    /\ peers["p1"] = NoPeer
    /\ Datagram("confirm_req", "p1") \in sent
    /\ Len(peers_l) = 1

\* the endpoints of the peers of list
EndpointsOf(list) == {list[i].endpoint : i \in 1..Len(list)}

\* C20, as claimed: purge_list returns exactly the peers it evicted, those
\* last heard from before the cutoff, and the disconnect observer is called
\* exactly when that list is empty
C20_PurgeReturnsEvicted ==
    [][OngoingKeepalive =>
          /\ EndpointsOf(peers_l') = Silent(peers, now - cutoff)
          /\ disconnects' = IF peers_l' = <<>> THEN disconnects + 1 ELSE disconnects]_vars

\* C20, amended: purge_list returns exactly the peers it kept, those heard
\* from at the cutoff or later, each once, as they were before the purge and
\* in ascending order of last_contact; the disconnect observer is called
\* exactly when that list is empty, that is when no peer is left in the table
C20_PurgeReturnsRetained ==
    [][OngoingKeepalive =>
          /\ EndpointsOf(peers_l') = Retained(peers, now - cutoff)
          /\ Len(peers_l') = Cardinality(Retained(peers, now - cutoff))
          /\ \A i \in 1..Len(peers_l') : peers_l'[i] = peers[peers_l'[i].endpoint]
          /\ \A i, j \in 1..Len(peers_l') :
                i < j => peers_l'[i].last_contact <= peers_l'[j].last_contact
          /\ disconnects' = IF peers_l' = <<>> THEN disconnects + 1 ELSE disconnects
          /\ peers_l' = <<>> <=> \A e \in Endpoints : peers'[e] = NoPeer]_vars

\* a purge has just evicted p1 and returned p2, which it kept, without a call
\* of the disconnect observer since the one of the first run on the empty table
C20_Witness ==
    /\ Operation(now + period, "ongoing_keepalive", 0) \in alarm
    /\ now > cutoff
    /\ peers["p1"] = NoPeer
    /\ Datagram("confirm_req", "p1") \in sent
    /\ peers["p2"] # NoPeer
    /\ EndpointsOf(peers_l) = {"p2"}
    /\ disconnects = 1

\* C21: block_arrival::recent (h) answers true exactly when the latest
\* block_arrival::add (h) is at most 60 s old (also when h had been added
\* before that), and false when it is older or h was never added
C21_RecentIffAddedWithinWindow ==
    \A h \in ArrivalHashes :
        block_arrival_recent(arrival, now, h) <=> (added[h] # NotAdded /\ now - added[h] <= 60)

\* the hashes the gap cache holds
GapHashes(gb) == {gb[i].hash : i \in 1..Len(gb)}

\* the entry the gap cache holds for the hash h
GapEntry(gb, h) == gb[GapIndex(gb, h)]

\* C22: after gap_cache.add the cache holds at most max entries, one per hash.
\* Adding a hash already present changes only the arrival time of its entry
\* and evicts nothing. Adding a new hash inserts its entry with the current
\* time; when that makes max+1 entries, exactly one other entry is evicted,
\* one with the oldest arrival time, and the rest is unchanged
C22_GapAddBoundedOldestEvicted ==
    [][\A b \in GapInputs : GapAdd(b) =>
          LET before == GapHashes(gap_blocks)
              after == GapHashes(gap_blocks')
              h == b.hash
          IN  /\ Len(gap_blocks') <= gap_cache_max
              /\ Cardinality(after) = Len(gap_blocks')
              /\ h \in after
              /\ GapEntry(gap_blocks', h).arrival = now
              /\ \A k \in after \ {h} : k \in before /\ GapEntry(gap_blocks', k) = GapEntry(gap_blocks, k)
              /\ IF h \in before
                 THEN /\ after = before
                      /\ GapEntry(gap_blocks', h).votes = GapEntry(gap_blocks, h).votes
                 ELSE /\ GapEntry(gap_blocks', h).votes = votes_init(b)
                      /\ IF Len(gap_blocks) < gap_cache_max
                         THEN after = before \cup {h}
                         ELSE \E old \in before :
                                 /\ after = (before \ {old}) \cup {h}
                                 /\ \A k \in before :
                                       GapEntry(gap_blocks, old).arrival <= GapEntry(gap_blocks, k).arrival]_vars

\* block 4 was added to a full cache: block 2, the oldest, is gone and block 3,
\* refreshed later and holding rA's vote, is kept
C22_Witness ==
    /\ GapHashes(gap_blocks) = {3, 4}
    /\ GapEntry(gap_blocks, 4).arrival = now
    /\ GapEntry(gap_blocks, 3).arrival < now
    /\ GapEntry(gap_blocks, 3).arrival > 0
    /\ GapEntry(gap_blocks, 3).votes["rA"] # NoVote

\* C23: after gap_cache.purge_old no entry that arrived more than 10 s ago is
\* left in the cache, and every entry that arrived within the last 10 s is
\* still there, unchanged
C23_PurgeOldRemovesExactlyOld ==
    \A after \in purge_old(gap_blocks, now - gap_cache_age) :
        /\ \A i \in 1..Len(after) : after[i].arrival >= now - 10
        /\ \A i \in 1..Len(gap_blocks) :
              gap_blocks[i].arrival >= now - 10
                 => \E j \in 1..Len(after) : after[j] = gap_blocks[i]

InRun(r) == runner[r].pc \notin {"top", "waiting", "done", "idle"}

\* C25: once block_processor.stop () has returned no further batch is begun:
\* a thread that is outside process_receive_many while the processor is
\* stopped does not enter process_receive_many, where a run takes the write
\* transaction
C25_NoBatchAfterStop ==
    [][\A r \in Runners : (stopped /\ ~InRun(r)) => ~InRun(r)']_vars

\* C26: every operation the alarm posted was posted at or after its wakeup
\* time, and the posted operations are in non-decreasing order of wakeup
C26_PostedDueAndInWakeupOrder ==
    /\ \A i \in DOMAIN posted : posted[i].operation.wakeup <= posted[i].time
    /\ \A i, j \in DOMAIN posted :
          i < j => posted[i].operation.wakeup <= posted[j].operation.wakeup

\* an operation added while the thread slept until a later one was posted
\* first, before its own wakeup time of the later one
C26_Witness ==
    /\ Len(posted) >= 3
    /\ posted[2].operation.hash > posted[3].operation.hash
    /\ posted[2].operation.wakeup < posted[3].operation.wakeup
    /\ posted[2].time < posted[3].operation.wakeup

\* the sentinel's wakeup time
SentinelWakeup == (CHOOSE op \in alarm : op.kind = "null").wakeup

\* C27: once the shutdown sentinel is added the alarm thread terminates; when
\* it has terminated no operation with a wakeup before the sentinel's is left
\* in the queue, and nothing is posted afterwards
C27_SentinelTerminatesAlarm ==
    /\ SentinelAdded ~> alarm_thread.pc = "done"
    /\ [](alarm_thread.pc = "done"
            => \A op \in alarm : op.kind # "null" => ~(op.wakeup < SentinelWakeup))
    /\ [][alarm_thread.pc = "done" => posted' = posted]_vars

\* the thread has terminated after posting an operation that was queued with
\* the sentinel, and an operation due later is left in the queue
C27_Witness ==
    /\ alarm_thread.pc = "done"
    /\ \E i \in DOMAIN posted : posted[i].operation.wakeup < SentinelWakeup
                                /\ posted[i].time >= SentinelWakeup
    /\ \E op \in alarm : op.kind = "operation" /\ op.wakeup > SentinelWakeup

\* the endpoints of a keepalive's list of peers
Listed(payload) == {payload[i] : i \in DOMAIN payload}

\* reachout (e) returns true: e is not a peer address, is in the peer table ps
\* or has an attempt record
Refused(ps, e) == not_a_peer(e) \/ known_peer(ps, e) \/ attempts[e] # NoAttempt

\* C28: while a keepalive is handled, reachout (e) for a listed endpoint that
\* is unspecified, in the peer table or recorded in attempts returns true,
\* sends no keepalive (the only keepalive then is the endpoint observer's to a
\* new sender) and inserts no attempt record; for any other endpoint it
\* returns false, records the attempt at the current time and one keepalive is
\* sent to e
C28_ReachoutRecordsOnlyWhenFalse ==
    [][\A sender \in Endpoints, payload \in KeepalivePayloads, random \in AllHashes :
          Keepalive(sender, payload, random) =>
             \A e \in Listed(payload) :
                IF Refused(peers', e)
                THEN /\ attempts'[e] = attempts[e]
                     /\ Datagram("keepalive", e) \in sent'
                           => Datagram("keepalive", e) \in sent \/ (e = sender /\ ~known_peer(peers, e))
                ELSE /\ attempts'[e] = now
                     /\ Datagram("keepalive", e) \in sent']_vars

\* the counters of the network
Counters(net) == <<net.bad_sender_count, net.insufficient_work_count, net.error_count>>

\* what a datagram handler can change: peer table, attempts, ledger, unchecked
\* table, queue of the block processor, datagrams sent
Handled29 == <<peers, attempts, store_blocks, unchecked, blocks, sent, rep_crawler_active>>

\* C29: at no time are two receives outstanding, and none is outstanding
\* while receive () waits on the alarm. When a receive completes without
\* socket error while the network is on, one receive is outstanding
\* afterwards; a reserved sender, a parse error and insufficient work each add
\* one to their own counter only and change no peer, ledger or queue state; a
\* dispatched datagram changes no counter. After a socket error with the
\* network on no receive is outstanding and receive () is on the alarm for
\* 5 s later
C29_ReceiveLoopContinues ==
    /\ [](network.receiving <= 1)
    /\ []((\E op \in alarm : op.kind = "receive") => network.receiving = 0)
    /\ [][\A completion \in Completions, sender \in Endpoints, payload \in KeepalivePayloads :
            (network.on /\ ReceiveAction(completion, sender, payload)) =>
               CASE completion = "socket_error" ->
                      /\ network'.receiving = 0
                      /\ Operation(now + 5, "receive", 0) \in alarm'
                      /\ Counters(network') = Counters(network)
                      /\ Handled29' = Handled29
                 [] completion = "dispatched" ->
                      /\ network'.receiving = 1
                      /\ Counters(network') = Counters(network)
                 [] completion = "reserved_sender" ->
                      /\ network'.receiving = 1
                      /\ Counters(network') = <<network.bad_sender_count + 1,
                                                network.insufficient_work_count, network.error_count>>
                      /\ Handled29' = Handled29 /\ alarm' = alarm
                 [] completion = "parse_error" ->
                      /\ network'.receiving = 1
                      /\ Counters(network') = <<network.bad_sender_count,
                                                network.insufficient_work_count, network.error_count + 1>>
                      /\ Handled29' = Handled29 /\ alarm' = alarm
                 [] completion = "insufficient_work" ->
                      /\ network'.receiving = 1
                      /\ Counters(network') = <<network.bad_sender_count,
                                                network.insufficient_work_count + 1, network.error_count>>
                      /\ Handled29' = Handled29 /\ alarm' = alarm]_vars

\* after a dispatched keepalive from p2 and a datagram with insufficient work,
\* a socket error left no receive outstanding and receive () on the alarm
C29_Witness ==
    /\ network.on
    /\ network.receiving = 0
    /\ network.insufficient_work_count = 1
    /\ peers["p2"] # NoPeer
    /\ \E op \in alarm : op.kind = "receive" /\ op.wakeup = now + 5

\* C30: every election started is eventually confirmed with its root removed
\* from roots (from any time on, a time comes at which this is so for all the
\* elections started until then), and the confirmed flag of an election is
\* never cleared
C30_EveryElectionConfirmedAndErased ==
    /\ []<>(\A e \in DOMAIN elections : elections[e].confirmed /\ Erased(e))
    /\ [][\A e \in DOMAIN elections : elections[e].confirmed => elections'[e].confirmed]_vars

\* more than announcements_per_interval roots are active, none with a vote
\* from the network, and the last of them has been announced too
C30_Witness ==
    /\ Len(roots) > announcements_per_interval
    /\ roots[Len(roots)].announcements >= 1
    /\ \A e \in DOMAIN elections : Voted(elections[e].rep_votes) \subseteq LocalReps \cup {NotAnAccount}

(***************************************************************************)
(* Properties of announce_votes                                            *)
(***************************************************************************)
\* the broadcast_winner operation of election e
Broadcast(e) == Task("broadcast_winner", NoBlock, e, FALSE)

\* the root at position i is serviced in this step: announce_votes posts the
\* broadcast_winner of its election
Serviced(i) == CopiesIn(Broadcast(roots[i].election), background') > CopiesIn(Broadcast(roots[i].election), background)

\* C31: a serviced root whose counter has reached contigious_announcements - 1
\* is confirmed and erased in that tick, a serviced root with a smaller counter
\* stays with its counter one higher and its election as it was; no root ever
\* carries a counter above contigious_announcements - 1, and a root leaves the
\* set only with its counter at that value and its election confirmed (the
\* fourth tick that services it)
C31_CutoffOnFourthTick ==
    /\ [](\A i \in DOMAIN roots : roots[i].announcements <= contigious_announcements - 1)
    /\ [][\A i \in DOMAIN roots :
            LET e == roots[i].election
                j == RootIndex(roots', roots[i].root)
            IN  /\ Serviced(i) =>
                     IF roots[i].announcements >= contigious_announcements - 1
                     THEN elections'[e].confirmed /\ j = 0
                     ELSE /\ j # 0
                          /\ roots'[j] = [roots[i] EXCEPT !.announcements = @ + 1]
                          /\ elections'[e] = elections[e]
                /\ j = 0 => /\ Serviced(i)
                            /\ roots[i].announcements = contigious_announcements - 1
                            /\ elections'[e].confirmed]_vars

\* an election that never had a quorum was cut off by the announce loop: it is
\* confirmed, its root is erased and its confirmation is dispatched
C31_Witness ==
    \E e \in DOMAIN elections :
       /\ elections[e].confirmed
       /\ Erased(e)
       /\ ~have_quorum(elections[e])
       /\ ConfirmDispatches(e) = 1

\* C32: a tick of announce_votes services at most announcements_per_interval
\* roots: a root at a position beyond announcements_per_interval gets no
\* broadcast_winner, keeps its election as it was and is left in the set with
\* its counter at 0
C32_AtMostPerIntervalServiced ==
    [][(\E k \in DOMAIN roots : Serviced(k)) =>
          /\ Cardinality({i \in DOMAIN roots : Serviced(i)}) <= announcements_per_interval
          /\ \A i \in DOMAIN roots :
                i > announcements_per_interval =>
                   LET j == RootIndex(roots', roots[i].root)
                   IN  /\ ~Serviced(i)
                       /\ j # 0
                       /\ roots'[j].announcements = 0
                       /\ elections'[roots[i].election] = elections[roots[i].election]]_vars

\* the confirmation (process_confirmed and confirmation_action) that election e
\* dispatches with block b and flag f
Confirmation(e, b, f) == Task("confirmed", b, e, f)

\* the body of confirm_once posts exactly one confirmation in this step, the
\* one for block b with flag f
PostsOnly(e, b, f) ==
    /\ CopiesIn(Confirmation(e, b, f), background') = CopiesIn(Confirmation(e, b, f), background) + 1
    /\ \A task \in Pending(background', e, "confirmed") \ {Confirmation(e, b, f)} :
          CopiesIn(task, background') <= CopiesIn(task, background)

\* C33: when the body of confirm_once runs, exactly one confirmation is
\* dispatched for the election, and the block handed to the confirmation
\* callback is the block leading the tally, with the flag telling whether that
\* block's weight exceeded the minimum threshold
C33_ConfirmationCarriesTallyTop ==
    [][\A e \in ElectionIds :
          ConfirmBodyRuns(e) =>
             PostsOnly(e, TopBlock(elections'[e]), TopWeight(elections'[e]) > minimum_threshold)]_vars

\* C33 (amended): when the body of confirm_once runs, exactly one confirmation
\* is dispatched for the election; process_confirmed and the confirmation
\* callback both receive last_winner as confirm_once leaves it (the leading
\* block if it exceeded the minimum threshold, the retained block otherwise),
\* with the flag telling whether the leading block's weight exceeded the
\* minimum threshold; no other step dispatches a confirmation
C33_ConfirmationCarriesLastWinner ==
    [][\A e \in ElectionIds :
          IF ConfirmBodyRuns(e)
          THEN PostsOnly(e, elections'[e].last_winner, TopWeight(elections'[e]) > minimum_threshold)
          ELSE \A task \in Pending(background', e, "confirmed") :
                  CopiesIn(task, background') <= CopiesIn(task, background)]_vars

\* the confirmation of an election has run with the retained block and the
\* flag false, while another block leads the tally with no more than the
\* minimum threshold
C33_Witness ==
    \E i \in DOMAIN confirmations :
       LET task == confirmations[i]
           el == elections[task.election]
       IN  /\ ~task.flag
           /\ task.block = el.last_winner
           /\ TopBlock(el) # task.block
           /\ TopWeight(el) <= minimum_threshold

(***************************************************************************)
(* Properties of forks                                                     *)
(***************************************************************************)
\* the item that runner r takes from the front of its queue in this step is
\* not forced and the ledger answers fork for its block
ForkResult(r) ==
    /\ ItemStep(r)
    /\ ~Head(runner[r].queue).force
    /\ ledger_process(store_blocks, Head(runner[r].queue).block).code = "fork"

\* what the fork case does apart from logging: the block goes to the bootstrap
\* initiator exactly when block_arrival.recent answers false for its hash, and
\* the ledger, unchecked and the gap cache stay as they are
ForkForwardedIffNotRecent(r) ==
    LET b == Head(runner[r].queue).block
    IN  /\ forks' = IF block_arrival_recent(arrival, now, b.hash) THEN forks ELSE forks \cup {b}
        /\ store_blocks' = store_blocks
        /\ unchecked' = unchecked
        /\ gap_blocks' = gap_blocks

\* C34: a block for which the ledger returns fork is forwarded to the bootstrap
\* initiator if and only if its hash is not recent in block_arrival, the fork
\* is logged in every case, and the ledger, unchecked and the gap cache are
\* left unchanged
C34_ForkAlwaysLogged ==
    [][\A r \in Runners :
          ForkResult(r) =>
             /\ ForkForwardedIffNotRecent(r)
             /\ Line("fork", Head(runner[r].queue).block.hash) \in log']_vars

\* C34 (amended): as above, but the fork is logged exactly when ledger logging
\* is enabled, whether or not the block was forwarded
C34_ForkLoggedWhenLedgerLogging ==
    [][\A r \in Runners :
          ForkResult(r) =>
             /\ ForkForwardedIffNotRecent(r)
             /\ log' = IF logging.ledger_logging_value
                       THEN log \cup {Line("fork", Head(runner[r].queue).block.hash)}
                       ELSE log]_vars

\* a fork that waited in the queue for more than the arrival window was
\* forwarded and logged
C34_Witness ==
    \E b \in forks :
       /\ added[b.hash] # NotAdded
       /\ added[b.hash] + arrival_window < now
       /\ Line("fork", b.hash) \in log

\* a fork processed within the arrival window was logged and not forwarded
C34_RecentWitness ==
    \E h \in BlockHashes :
       /\ Line("fork", h) \in log
       /\ \A b \in forks : b.hash # h

\* with ledger logging off a fork was forwarded and left no line in the log
C34_UnloggedWitness ==
    /\ ~logging.ledger_logging_value
    /\ forks # {}
    /\ log = {}

(***************************************************************************)
(* Properties of the observer dispatch                                     *)
(***************************************************************************)
\* runner r makes the observer calls for the next accepted block of its batch
ObserveStep(r) == runner[r].pc = "observe" /\ runner'[r].progress = Tail(runner[r].progress)

\* the observer calls made in this step
Emitted == SubSeq(observed', Len(observed) + 1, Len(observed'))

BlockAccepted(b) == Event("blocks", b.hash, account(b.hash), amount(b.hash), FALSE)

AccountBalance(a, pending) == Event("account_balance", 0, a, 0, pending)

PendingBalance(b) ==
    IF pending_account(b.hash) # 0 THEN <<AccountBalance(pending_account(b.hash), TRUE)>> ELSE <<>>

\* every block of the ledger but the genesis block was announced to the
\* observers once, and no other block was
AcceptedObservedOnce ==
    \A h \in BlockHashes :
       Cardinality(AcceptedAt(h)) = IF block_exists(store_blocks, h) THEN 1 ELSE 0

\* C35: for every accepted block the observer dispatch emits block_accepted,
\* then account_balance (account, false), then account_balance
\* (pending_account, true) exactly when the result names a pending account,
\* whatever the amount
C35_BalanceForEveryAccepted ==
    /\ [](Drained => AcceptedObservedOnce)
    /\ [][\A r \in Runners :
            ObserveStep(r) =>
               LET b == Head(runner[r].progress)
               IN  Emitted = <<BlockAccepted(b), AccountBalance(account(b.hash), FALSE)>> \o PendingBalance(b)]_vars

\* C35 (amended): for every accepted block the observer dispatch emits
\* block_accepted; when the amount of the result is greater than zero it then
\* emits account_balance (account, false) and, exactly when the result names a
\* pending account, account_balance (pending_account, true); when the amount
\* is zero it emits no account_balance at all.  Once the processor has drained,
\* every block of the ledger has been announced exactly once.
C35_BalanceWhenAmountPositive ==
    /\ [](Drained => AcceptedObservedOnce)
    /\ [][\A r \in Runners :
            ObserveStep(r) =>
               LET b == Head(runner[r].progress)
               IN  Emitted = IF amount(b.hash) > 0
                             THEN <<BlockAccepted(b), AccountBalance(account(b.hash), FALSE)>> \o PendingBalance(b)
                             ELSE <<BlockAccepted(b)>>]_vars

\* a block with an amount and a pending account and a block with amount zero
\* have been accepted and observed: the first with both account_balance calls,
\* the second followed by no account_balance call
C35_Witness ==
    /\ Drained
    /\ \E i \in DOMAIN observed :
          /\ observed[i].type = "blocks" /\ observed[i].amount = 0
          /\ i < Len(observed) => observed[i + 1].type = "blocks"
    /\ \E i \in DOMAIN observed : observed[i] = AccountBalance(pending_account(2), TRUE)

\* a block with an amount and no pending account has been accepted and
\* observed with the one account_balance call
C35_NoPendingWitness ==
    /\ Drained
    /\ \E i \in DOMAIN observed :
          /\ observed[i].type = "blocks" /\ observed[i].amount > 0
          /\ pending_account(observed[i].hash) = 0
          /\ i + 1 = Len(observed) /\ observed[i + 1] = AccountBalance(account(observed[i].hash), FALSE)

(***************************************************************************)
(* Properties of the representative crawl                                  *)
(***************************************************************************)
\* the removal operations of the rep queries made less than rep_query_timeout ago
RecentQueries == {op \in alarm : op.kind = "rep_crawler_remove" /\ now < op.wakeup}

\* C36: a hash a rep query inserted into rep_crawler.active stays there for
\* the rep_query_timeout seconds that follow the query (until the operation
\* that query put on the alarm is due), also when another query selected the
\* same block shortly before
C36_ActiveForTimeoutAfterQuery ==
    \A op \in RecentQueries : op.hash \in rep_crawler_active

(***************************************************************************)
(* Properties of the timers                                                *)
(***************************************************************************)
\* C37: the callbacks on the alarm hold no owning reference to the node: once
\* node::stop has run and the process has dropped its shared_ptr, no pending
\* operation keeps the node alive
C37_NoTimerKeepsNodeAlive ==
    (stopped /\ ~node_held) => \A op \in alarm : Capture(op.kind) # "shared"

(***************************************************************************)
(* Properties of flush                                                     *)
(***************************************************************************)
\* C38: whenever flush can return while the processor is not stopped, every
\* block added before has been processed completely: the queue is empty and
\* the processor thread has no batch in progress
C38_FlushReturnsAfterProcessing ==
    (~stopped /\ ~flush_waits(stopped, blocks, idle)) => (blocks = <<>> /\ ~InRun("bp"))

(***************************************************************************)
(* Properties of the lock order                                            *)
(***************************************************************************)
RequestsWrite(t) == InPath(t) /\ NextOp(t).op = "write"

\* a thread that requests the write transaction holds no mutex and not the transaction
WriteRequestedFirst ==
    \A t \in LockThreads : RequestsWrite(t) => locking[t].held = {} /\ txn # t

\* whenever threads are inside a path, one of them can take its next step
SomeThreadProceeds ==
    (\E t \in LockThreads : InPath(t)) => (\E t \in LockThreads : InPath(t) /\ ~Blocked(t))

\* C39: no interleaving of the batch with its observer, announce_votes, election.vote,
\* broadcast_winner and gap_cache.vote deadlocks: the write transaction is never requested
\* by a thread that holds the active-transactions mutex or the gap-cache mutex, and never
\* a second time by the thread that holds it
C39_NoDeadlockWriteTransactionFirst == WriteRequestedFirst /\ SomeThreadProceeds

\* one thread holds the write transaction and waits for the active-transactions mutex,
\* which another thread holds, while a third waits for the write transaction
C39_Witness ==
    \E t, u, w \in LockThreads :
        /\ txn = t /\ Blocked(t) /\ NextOp(t).mutex = "active"
        /\ "active" \in locking[u].held
        /\ RequestsWrite(w) /\ Blocked(w)

(***************************************************************************)
(* Properties of the stopped network                                       *)
(***************************************************************************)
\* C40: once network.stop () has returned on a started node no new asynchronous receive
\* is started on the socket, the resume timer of an earlier socket error included
C40_NoReceiveAfterStop ==
    [][(network.started /\ ~network.on) => network'.receiving <= network.receiving]_vars

====
